---- MODULE Spec2Model ----
(***************************************************************************)
(* A model of the WordPress SEO optimizer (maquinanerd/revisorseo):        *)
(*   - process_lock.py : the file-based single-instance lock and main()    *)
(*   - main.py         : the orchestrator (candidate selection, attempts)  *)
(*   - dashboard.py    : the outcome log and the dashboard's selection     *)
(*   - gemini_client.py: the quota ledger and the key rotation             *)
(* Each part has its own specification over the shared variables; the      *)
(* variables a specification does not use stay at their initial values.    *)
(***************************************************************************)
EXTENDS Integers, Sequences, FiniteSets, TLC

VARIABLES
    now,        \* wall clock, in seconds (time.time(), SQLite's 'now')
    lockFile,   \* seo_optimizer.lock: [exists, mtime, pid]
    lpc,        \* per process: position in main() / ProcessLock
    locked,     \* per process: ProcessLock.locked
    acquired,   \* per process: what acquire() returned ("none" before it returns)
    nextRun,    \* per process: next due time of the scheduled job (schedule)
    effects,    \* per process: what the process has done outside the lock
    today,              \* date.today(), as a day number
    quotaFile,          \* gemini_quota.json: key identifier -> record
    current_key_index,  \* GeminiClient.current_key_index
    current_api_key,    \* GeminiClient.current_api_key
    gpc,                \* position in optimize_content
    key_index,          \* optimize_content: the outer loop's key_index
    attempt,            \* optimize_content: the inner loop's attempt
    gresult,            \* what optimize_content returned: "none", "ok", "fail"
    lastCan,            \* what the last _can_make_request returned
    readFaults,         \* failed reads of the ledger so far
    writeFaults,        \* failed writes of the ledger so far
    recordUses,         \* per identifier: _increment_quota_usage calls on the current date
    usedEarlier,        \* _increment_quota_usage calls on earlier dates
    startedEmpty,       \* per identifier: the ledger held no record when the client started
    rejected,           \* key indices rejected for quota (429) in the current invocation
    calls,              \* per key index: generate_content calls of the current invocation
    skipped,            \* key indices the quota check refused in the current invocation
    retried,            \* key indices called again after a quota rejection
    waited,             \* the time.sleep since the last call: "none", "retry", "quota"
    lastReply,          \* what the call of the last step got ("none" otherwise)
    parses,             \* _parse_response calls made on that reply
    lastSwitch,         \* what the last _switch_to_backup_key returned
    test_status,        \* overall_status of the last test_connection
    history,            \* table optimization_history: rows [post_id, status, date]
    attempts,           \* optimization attempts and manual marks started so far
    dbFaults,           \* failed writes of the outcome log so far
    processed_posts,    \* SEOOptimizer.processed_posts
    dry_run,            \* SEOOptimizer.dry_run
    opc,                \* position in run_optimization_cycle / optimize_post
    posts_to_process,   \* run_optimization_cycle: the batch of the cycle (post ids)
    idx,                \* run_optimization_cycle: the loop's position in the batch
    otrace,             \* events of the orchestrator's current attempt, in order
    dpc,                \* position in the dashboard's optimize-post request
    dpost,              \* the post id of that request
    dtrace,             \* events of the endpoint's current attempt, in order
    cause,              \* why the orchestrator's current attempt has no content
    reason,             \* error_message of the row the attempt ended with
    spc,                \* position of the start-up: "wp", "gemini", "tmdb", "run", "exit"
    unreachable,        \* a service was found unreachable by its connection test
    tpc,                \* position of the title extraction: "idle", "extracted"
    post_title,         \* the post title the extractors were given
    post_content,       \* the post content the extractors were given
    main_title,         \* what _extract_main_title_from_post returned
    content_titles,     \* what extract_titles_from_content returned
    potential_titles,   \* the candidates of find_media_for_post
    mpc,                \* position of find_media_for_post
    categories,         \* the category ids of the post
    mi,                 \* position of the candidate in the loop
    movie,              \* result of the movie search for the candidate
    tv_show,            \* result of the TV search for the candidate
    searched,           \* types of the searches issued for the candidate, in order
    media_data,         \* the bundle
    appended,           \* the kinds of video appended to the bundle's trailers
    pending,            \* what the last get_pending_posts saw and returned
    response_text,      \* _parse_response: the reply's text, as a sequence of tokens
    echo,               \* the triple the reply was rendered from (NoTriple: none)
    ppc,                \* position of the parse: "reply", "parsed"
    parsed_result,      \* what _parse_response returned (ParseNone: None)
    clients             \* per client of a shared ledger: its _increment_quota_usage

callVars == <<calls, skipped, retried, waited, lastReply, parses>>
lockVars == <<lockFile, lpc, locked, acquired, nextRun, effects>>
quotaVars == <<today, quotaFile, current_key_index, current_api_key, gpc, key_index,
               attempt, gresult, lastCan, readFaults, writeFaults, recordUses,
               usedEarlier, startedEmpty,
               rejected, callVars, lastSwitch, test_status>>
orchVars == <<processed_posts, dry_run, opc, posts_to_process, idx, otrace>>
dashVars == <<dpc, dpost, dtrace>>
optVars == <<history, attempts, dbFaults, orchVars, dashVars, pending>>
parseVars == <<response_text, echo, ppc, parsed_result>>
failVars == <<cause, reason>>
startVars == <<spc, unreachable>>
titleVars == <<tpc, post_title, post_content, main_title, content_titles,
               potential_titles>>
mediaVars == <<mpc, categories, mi, movie, tv_show, searched, media_data, appended>>
tmdbVars == <<titleVars, mediaVars>>
sharedVars == <<clients>>
vars == <<now, lockVars, quotaVars, optVars, parseVars, failVars, startVars, tmdbVars, sharedVars>>

\* what each part leaves alone
notLock == <<quotaVars, optVars, parseVars, failVars, startVars, tmdbVars, sharedVars>>
notQuota == <<now, lockVars, optVars, parseVars, failVars, startVars, tmdbVars, sharedVars>>
notOpt == <<now, lockVars, quotaVars, parseVars, failVars, startVars, tmdbVars, sharedVars>>
notOptFail == <<now, lockVars, quotaVars, parseVars, startVars, tmdbVars, sharedVars>>
notParse == <<now, lockVars, quotaVars, optVars, failVars, startVars, tmdbVars, sharedVars>>
notStart == <<now, lockVars, quotaVars, optVars, parseVars, failVars, tmdbVars, sharedVars>>
notTmdb == <<now, lockVars, quotaVars, optVars, parseVars, failVars, startVars, sharedVars>>
notShared == <<now, lockVars, optVars, parseVars, failVars, startVars, tmdbVars>>

(***************************************************************************)
(* Time.  The clock advances in steps of TickSeconds up to MaxClock.       *)
(***************************************************************************)
TickSeconds == 1800
MaxClock == 9000

Tick ==
    /\ now + TickSeconds <= MaxClock
    /\ now' = now + TickSeconds

(***************************************************************************)
(* process_lock.py and main()                                              *)
(***************************************************************************)
NumProcs == 2
Procs == 1..NumProcs

\* the credentials of the generative service
NumKeys == 2

LockStaleSeconds == 7200
ScheduleSeconds == 3600

NoFile == [exists |-> FALSE, mtime |-> 0, pid |-> 0]

\* lock_age > 7200
IsStale(age) == age > LockStaleSeconds

\* acquire, line 15: os.path.exists(self.lock_file)
acquire_exists(p) ==
    /\ lpc[p] = "start"
    /\ lpc' = [lpc EXCEPT ![p] = IF lockFile.exists THEN "age" ELSE "create"]
    /\ UNCHANGED <<now, lockFile, locked, acquired, nextRun, effects, notLock>>

\* acquire, lines 17-23: getmtime raises when the file has gone (except branch)
acquire_age(p) ==
    /\ lpc[p] = "age"
    /\ IF ~lockFile.exists
         THEN /\ lpc' = [lpc EXCEPT ![p] = "entered"]
              /\ acquired' = [acquired EXCEPT ![p] = "false"]
         ELSE IF IsStale(now - lockFile.mtime)
           THEN /\ lpc' = [lpc EXCEPT ![p] = "remove"]
                /\ UNCHANGED acquired
           ELSE /\ lpc' = [lpc EXCEPT ![p] = "entered"]
                /\ acquired' = [acquired EXCEPT ![p] = "false"]
    /\ UNCHANGED <<now, lockFile, locked, nextRun, effects, notLock>>

\* acquire, line 20: os.remove raises when the file has gone (except branch)
acquire_remove(p) ==
    /\ lpc[p] = "remove"
    /\ IF lockFile.exists
         THEN /\ lockFile' = NoFile
              /\ lpc' = [lpc EXCEPT ![p] = "create"]
              /\ UNCHANGED acquired
         ELSE /\ lpc' = [lpc EXCEPT ![p] = "entered"]
              /\ acquired' = [acquired EXCEPT ![p] = "false"]
              /\ UNCHANGED lockFile
    /\ UNCHANGED <<now, locked, nextRun, effects, notLock>>

\* acquire, lines 26-31: open(lock_file, 'w') creates or truncates the file;
\* lines 33-35: a failing open returns False
acquire_create(p) ==
    /\ lpc[p] = "create"
    /\ \E opened \in BOOLEAN :
         IF opened
           THEN /\ lockFile' = [exists |-> TRUE, mtime |-> now, pid |-> p]
                /\ locked' = [locked EXCEPT ![p] = TRUE]
                /\ acquired' = [acquired EXCEPT ![p] = "true"]
                /\ lpc' = [lpc EXCEPT ![p] = "entered"]
           ELSE /\ acquired' = [acquired EXCEPT ![p] = "false"]
                /\ lpc' = [lpc EXCEPT ![p] = "entered"]
                /\ UNCHANGED <<lockFile, locked>>
    /\ UNCHANGED <<now, nextRun, effects, notLock>>

\* main, line 279: the body of the with statement goes on only when acquired
MainProceeds(p) == acquired[p] = "true"

\* main, lines 279-281: not acquired: return 1 (then __exit__)
main_not_acquired(p) ==
    /\ lpc[p] = "entered"
    /\ ~MainProceeds(p)
    /\ lpc' = [lpc EXCEPT ![p] = "exit"]
    /\ UNCHANGED <<now, lockFile, locked, acquired, nextRun, effects, notLock>>

\* test_connection, lines 338-346: overall_status from the number of keys
\* that answered
OverallStatus(successful_connections) ==
    IF successful_connections = NumKeys THEN "ok"
    ELSE IF successful_connections > 0 THEN "partial"
    ELSE "failed"

\* GeminiClient.test_connection, line 348: the dictionary it returns, for the
\* set of keys whose test call answered
GeminiTestResult(answered) ==
    [overall_status |-> OverallStatus(Cardinality(answered)),
     keys |-> [i \in 0..(NumKeys - 1) |-> i \in answered]]

\* Python's truth value of a dictionary: false only when it has no entry
DictTruthy(dict) == DOMAIN dict # {}

\* initialize, lines 66-89: the three connection tests, each under "if not"
Initialize(wp_ok, answered, tmdb_ok) ==
    wp_ok /\ DictTruthy(GeminiTestResult(answered)) /\ tmdb_ok

\* main, lines 279-292: SEOOptimizer(), initialize() (three connection tests)
main_initialize(p) ==
    /\ lpc[p] = "entered"
    /\ MainProceeds(p)
    /\ \E wp_ok \in BOOLEAN, answered \in SUBSET (0..(NumKeys - 1)), tmdb_ok \in BOOLEAN :
         /\ effects' = [effects EXCEPT ![p] = @ \cup {"initialize", "external"}]
         /\ lpc' = [lpc EXCEPT ![p] = IF Initialize(wp_ok, answered, tmdb_ok)
                                      THEN "run" ELSE "exit"]
    /\ UNCHANGED <<now, lockFile, locked, acquired, nextRun, notLock>>

\* run_optimization_cycle, as main() sees it: external calls, maybe outcome rows
CycleEffects(wrote) ==
    {"cycle", "external"} \cup (IF wrote THEN {"row"} ELSE {})

\* main, lines 294-299 and start_scheduler, lines 262-265: the first cycle
main_run(p) ==
    /\ lpc[p] = "run"
    /\ \E wrote \in BOOLEAN, once \in BOOLEAN :
         /\ effects' = [effects EXCEPT ![p] = @ \cup CycleEffects(wrote)]
         /\ lpc' = [lpc EXCEPT ![p] = IF once THEN "exit" ELSE "sched"]
         /\ nextRun' = [nextRun EXCEPT ![p] = IF once THEN @ ELSE now + ScheduleSeconds]
    /\ UNCHANGED <<now, lockFile, locked, acquired, notLock>>

\* start_scheduler, lines 268-270: run_pending runs the job when it is due
scheduler_run_pending(p) ==
    /\ lpc[p] = "sched"
    /\ now >= nextRun[p]
    /\ \E wrote \in BOOLEAN :
         effects' = [effects EXCEPT ![p] = @ \cup CycleEffects(wrote)]
    /\ nextRun' = [nextRun EXCEPT ![p] = now + ScheduleSeconds]
    /\ UNCHANGED <<now, lockFile, lpc, locked, acquired, notLock>>

\* main, lines 301-305: KeyboardInterrupt or a fatal error ends the body
main_interrupt(p) ==
    /\ lpc[p] \in {"entered", "run", "sched"}
    /\ MainProceeds(p)
    /\ lpc' = [lpc EXCEPT ![p] = "exit"]
    /\ UNCHANGED <<now, lockFile, locked, acquired, nextRun, effects, notLock>>

\* a release that forgets self.locked
ReleaseGuardAnyFile(p) == lockFile.exists

\* release, line 41: if self.locked and os.path.exists(self.lock_file)
ReleaseGuard(p) == locked[p] /\ lockFile.exists

\* __exit__ -> release, line 41
release_check(p) ==
    /\ lpc[p] = "exit"
    /\ lpc' = [lpc EXCEPT ![p] = IF ReleaseGuard(p) THEN "unlink" ELSE "done"]
    /\ UNCHANGED <<now, lockFile, locked, acquired, nextRun, effects, notLock>>

\* a release that leaves the file in place
release_keep(p) ==
    /\ lpc[p] = "unlink"
    /\ lpc' = [lpc EXCEPT ![p] = "done"]
    /\ UNCHANGED <<now, lockFile, locked, acquired, nextRun, effects, notLock>>

\* release, lines 42-46: os.remove, locked = False; a failing remove is logged
release_remove(p) ==
    /\ lpc[p] = "unlink"
    /\ IF lockFile.exists
         THEN /\ lockFile' = NoFile
              /\ locked' = [locked EXCEPT ![p] = FALSE]
         ELSE UNCHANGED <<lockFile, locked>>
    /\ lpc' = [lpc EXCEPT ![p] = "done"]
    /\ UNCHANGED <<now, acquired, nextRun, effects, notLock>>

LockTick == Tick /\ UNCHANGED <<lockVars, notLock>>

\* a process that obtained True from acquire and has not yet released
Holding(p) == acquired[p] = "true" /\ lpc[p] \in {"entered", "run", "sched"}

(***************************************************************************)
(* gemini_client.py: the quota ledger and optimize_content                 *)
(***************************************************************************)
MaxDay == 2
MaxUses == 2
MaxFaults == 1

max_daily_requests == 45
max_retries_per_key == 3

\* a key is <<its first 12 characters, the rest>>
api_keys == [i \in 1..NumKeys |-> <<i, 0>>]

\* self.current_api_key[:12]
KeyIdentifier(key) == key[1]

KeyIds == {KeyIdentifier(api_keys[i]) : i \in 1..NumKeys}

\* all_quota_data.get(key_identifier, {}) of a key the file does not hold
NoRecord == [present |-> FALSE, date |-> 0, requests |-> 0]

\* {'date': str(date.today()), 'requests': 0}
FreshRecord == [present |-> TRUE, date |-> today, requests |-> 0]

EmptyLedger == [id \in KeyIds |-> NoRecord]

\* a load that answers a failed read with the cap reached for every key
LoadQuotaDataClosed(rd) ==
    IF rd THEN quotaFile
    ELSE [id \in KeyIds |->
            [present |-> TRUE, date |-> today, requests |-> max_daily_requests]]

\* _load_quota_data: the file's content, {} when it is missing or unreadable
LoadQuotaData(rd) == IF rd THEN quotaFile ELSE EmptyLedger

\* _save_quota_data: the file after the write; a failing write leaves it
SaveQuotaData(all_data, wr) == IF wr THEN all_data ELSE quotaFile

\* key_data.get('date') != str(date.today())
IsOtherDate(key_data) == ~key_data.present \/ key_data.date # today

\* _can_make_request, lines 69-73: the record the check is made on
CanKeyData(all_data, id) ==
    IF IsOtherDate(all_data[id]) THEN FreshRecord ELSE all_data[id]

\* _can_make_request, line 72: the call writes the file (resets the record)
WritesReset(id, rd) == IsOtherDate(LoadQuotaData(rd)[id])

\* _can_make_request, lines 72-75: the file after the call
CanMakeRequestFile(id, rd, wr) ==
    LET all_data == LoadQuotaData(rd)
    IN  IF IsOtherDate(all_data[id])
          THEN SaveQuotaData([all_data EXCEPT ![id] = FreshRecord], wr)
          ELSE quotaFile

\* a check that allows the cap itself
BelowCapInclusive(requests) == requests <= max_daily_requests

\* _can_make_request, line 77
BelowCap(requests) == requests < max_daily_requests

\* _can_make_request, lines 77-80: what it returns
CanMakeRequest(id, rd) ==
    BelowCap(CanKeyData(LoadQuotaData(rd), id).requests)

\* an increment that keeps the old count on a new date
KeepOnNewDate(key_data) ==
    IF key_data.date # today THEN [key_data EXCEPT !.date = today] ELSE key_data

\* _increment_quota_usage, lines 91-93
ResetOnNewDate(key_data) ==
    IF key_data.date # today THEN FreshRecord ELSE key_data

\* _increment_quota_usage, lines 87-96: the dictionary that is saved, made
\* from the one that was loaded
IncrementedData(all_data, id) ==
    LET got == IF all_data[id].present THEN all_data[id] ELSE FreshRecord
        key_data == ResetOnNewDate(got)
        bumped == [key_data EXCEPT !.requests = @ + 1]
    IN  [all_data EXCEPT ![id] = bumped]

\* _increment_quota_usage, lines 84-97: the file after the call
IncrementQuotaUsageFile(id, rd, wr) ==
    SaveQuotaData(IncrementedData(LoadQuotaData(rd), id), wr)

\* the count the ledger holds for an identifier under today's date
TodayCount(file, id, day) ==
    IF file[id].present /\ file[id].date = day THEN file[id].requests ELSE 0

\* _increment_quota_usage calls made on the current date
RECURSIVE SumUses(_, _)
SumUses(f, ids) ==
    IF ids = {} THEN 0
    ELSE LET id == CHOOSE x \in ids : TRUE
         IN  f[id] + SumUses(f, ids \ {id})

UsesLeft == usedEarlier + SumUses(recordUses, KeyIds) < MaxUses

\* bookkeeping of a step's ledger I/O
LedgerIO(rd, wr) ==
    /\ readFaults + writeFaults + (IF rd THEN 0 ELSE 1) + (IF wr THEN 0 ELSE 1)
         <= MaxFaults
    /\ readFaults' = IF rd THEN readFaults ELSE readFaults + 1
    /\ writeFaults' = IF wr THEN writeFaults ELSE writeFaults + 1

NoLedgerIO == UNCHANGED <<readFaults, writeFaults>>

\* _can_make_request called on its own, for the active key
can_make_request ==
    /\ gpc = "idle"
    /\ \E rd \in BOOLEAN, wr \in BOOLEAN :
         LET id == KeyIdentifier(current_api_key)
         IN  /\ quotaFile' = CanMakeRequestFile(id, rd, wr)
             /\ lastCan' = CanMakeRequest(id, rd)
             /\ (wr \/ WritesReset(id, rd))
             /\ LedgerIO(rd, wr)
    /\ UNCHANGED <<today, current_key_index, current_api_key, gpc, key_index,
                   attempt, gresult, recordUses, usedEarlier, startedEmpty, rejected,
                   callVars, lastSwitch, test_status, notQuota>>

\* _increment_quota_usage called on its own, for the active key
increment_quota_usage ==
    /\ gpc = "idle"
    /\ LET id == KeyIdentifier(current_api_key)
       IN  /\ UsesLeft
           /\ recordUses' = [recordUses EXCEPT ![id] = @ + 1]
           /\ \E rd \in BOOLEAN, wr \in BOOLEAN :
                /\ quotaFile' = IncrementQuotaUsageFile(id, rd, wr)
                /\ LedgerIO(rd, wr)
    /\ UNCHANGED <<today, current_key_index, current_api_key, gpc, key_index,
                   attempt, gresult, lastCan, usedEarlier, startedEmpty, rejected,
                   callVars, lastSwitch, test_status, notQuota>>

\* the calendar date changes (midnight)
DateChange ==
    /\ today < MaxDay
    /\ today' = today + 1
    /\ recordUses' = [id \in KeyIds |-> 0]
    /\ usedEarlier' = usedEarlier + SumUses(recordUses, KeyIds)
    /\ NoLedgerIO
    /\ UNCHANGED <<quotaFile, current_key_index, current_api_key, gpc, key_index,
                   attempt, gresult, lastCan, startedEmpty, rejected,
                   callVars, lastSwitch, test_status, notQuota>>

\* _set_active_key, lines 100-103: the index that is active after the call
SetActiveKey(k) == IF 0 <= k /\ k < NumKeys THEN k ELSE current_key_index

\* a switch that finds a backup key at every index
HasBackupKeyAlways(i) == TRUE

\* _switch_to_backup_key, line 110
HasBackupKey(i) == i < NumKeys - 1

\* _switch_to_backup_key, lines 108-114, called between invocations
switch_to_backup_key ==
    /\ gpc = "idle"
    /\ IF HasBackupKey(current_key_index)
         THEN /\ current_key_index' = SetActiveKey(current_key_index + 1)
              /\ current_api_key' = api_keys[SetActiveKey(current_key_index + 1) + 1]
              /\ lastSwitch' = "true"
         ELSE /\ lastSwitch' = "false"
              /\ UNCHANGED <<current_key_index, current_api_key>>
    /\ test_status' = "none"
    /\ NoLedgerIO
    /\ UNCHANGED <<today, quotaFile, gpc, key_index, attempt, gresult, lastCan,
                   recordUses, usedEarlier, startedEmpty, rejected, callVars,
                   notQuota>>

\* test_connection, lines 309-348, called between invocations: every key is
\* tried with genai.configure, then the key that was active is set again
test_connection ==
    /\ gpc = "idle"
    /\ \E answered \in SUBSET (0..(NumKeys - 1)) :
         LET original_key_index == current_key_index
         IN  /\ current_key_index' = SetActiveKey(original_key_index)
             /\ current_api_key' = api_keys[SetActiveKey(original_key_index) + 1]
             /\ test_status' = OverallStatus(Cardinality(answered))
    /\ lastSwitch' = "none"
    /\ NoLedgerIO
    /\ UNCHANGED <<today, quotaFile, gpc, key_index, attempt, gresult, lastCan,
                   recordUses, usedEarlier, startedEmpty, rejected, callVars,
                   notQuota>>

\* no generation call made yet, for any position of the key list
NoCalls == [i \in 0..(NumKeys - 1) |-> 0]

\* an outer loop that starts at the head of the key list
StartIndexZero(cursor) == 0

\* optimize_content, line 248: range(self.current_key_index, ...) starts here
StartIndex(cursor) == cursor

\* optimize_content, lines 242-248: the outer loop starts at the current key;
\* what earlier calls on the client returned is gone
oc_begin ==
    /\ gpc = "idle"
    /\ gpc' = "key"
    /\ key_index' = StartIndex(current_key_index)
    /\ attempt' = 0
    /\ gresult' = "none"
    /\ rejected' = {}
    /\ calls' = NoCalls
    /\ skipped' = {}
    /\ retried' = {}
    /\ waited' = "none"
    /\ lastReply' = "none"
    /\ parses' = 0
    /\ lastSwitch' = "none"
    /\ test_status' = "none"
    /\ NoLedgerIO
    /\ UNCHANGED <<today, quotaFile, current_key_index, current_api_key, lastCan,
                   recordUses, usedEarlier, startedEmpty, notQuota>>

\* a loop head that goes on to the retry loop whatever the check said
ProceedsAnyway(can) == TRUE

\* optimize_content, lines 251-253: a refused key is skipped (continue)
Proceeds(can) == can

\* optimize_content, lines 248-253 and 306-307: the head of the outer loop
oc_next_key ==
    /\ gpc = "key"
    /\ IF key_index >= NumKeys
         THEN /\ gpc' = "done"
              /\ gresult' = "fail"
              /\ NoLedgerIO
              /\ UNCHANGED <<quotaFile, current_key_index, current_api_key,
                             key_index, attempt, lastCan, skipped>>
         ELSE \E rd \in BOOLEAN, wr \in BOOLEAN :
                LET key == api_keys[key_index + 1]
                    id == KeyIdentifier(key)
                    can == CanMakeRequest(id, rd)
                IN  /\ current_key_index' = SetActiveKey(key_index)
                    /\ current_api_key' = api_keys[SetActiveKey(key_index) + 1]
                    /\ quotaFile' = CanMakeRequestFile(id, rd, wr)
                    /\ lastCan' = can
                    /\ (wr \/ WritesReset(id, rd))
                    /\ LedgerIO(rd, wr)
                    /\ IF Proceeds(can)
                         THEN /\ gpc' = "attempt"
                              /\ attempt' = 0
                              /\ UNCHANGED <<key_index, skipped>>
                         ELSE /\ key_index' = key_index + 1
                              /\ skipped' = skipped \cup {key_index}
                              /\ UNCHANGED <<gpc, attempt>>
                    /\ UNCHANGED gresult
    /\ lastReply' = "none"
    /\ parses' = 0
    /\ UNCHANGED <<today, recordUses, usedEarlier, startedEmpty, rejected, calls,
                   retried, waited, lastSwitch, test_status, notQuota>>

\* an increment booked on the first key of the list
FirstKeyIdentifier == KeyIdentifier(api_keys[1])

\* _increment_quota_usage, line 85: the identifier the use is booked on
IncrementKeyIdentifier == KeyIdentifier(current_api_key)

\* what model.generate_content and _parse_response make of one call
Replies == {"valid", "empty", "unparseable", "quota", "error"}

\* the replies _parse_response is called on (response.text is not empty)
ParsedReplies == {"valid", "unparseable"}

\* a retry loop that takes one turn more
AttemptsLeftOneMore(a) == a < max_retries_per_key

\* optimize_content, line 256: range(max_retries_per_key) has a turn after a
AttemptsLeft(a) == a + 1 < max_retries_per_key

\* a use booked for every reply that was handed to the parser
RecordsUseParsed(reply) == reply \in ParsedReplies

\* optimize_content, lines 273-276: the use is booked when the parse succeeded
RecordsUse(reply) == reply = "valid"

\* optimize_content, lines 256-302: one generation call and what follows it,
\* up to the time.sleep or the end of the inner loop
oc_generate ==
    /\ gpc = "attempt"
    /\ \E reply \in Replies :
         LET id == IncrementKeyIdentifier
         IN  /\ lastReply' = reply
             /\ parses' = IF reply \in ParsedReplies THEN 1 ELSE 0
             /\ IF RecordsUse(reply)
                  THEN /\ UsesLeft
                       /\ recordUses' = [recordUses EXCEPT ![id] = @ + 1]
                       /\ \E rd \in BOOLEAN, wr \in BOOLEAN :
                            /\ quotaFile' = IncrementQuotaUsageFile(id, rd, wr)
                            /\ LedgerIO(rd, wr)
                  ELSE /\ NoLedgerIO
                       /\ UNCHANGED <<quotaFile, recordUses>>
             /\ IF reply = "valid"
                  THEN /\ gresult' = "ok"
                       /\ gpc' = "done"
                       /\ UNCHANGED <<key_index, rejected>>
                  ELSE /\ IF reply = "error" /\ ~AttemptsLeft(attempt)
                            THEN /\ key_index' = key_index + 1
                                 /\ gpc' = "key"
                            ELSE /\ gpc' = "sleep"
                                 /\ UNCHANGED key_index
                       /\ rejected' = IF reply = "quota"
                                        THEN rejected \cup {current_key_index}
                                        ELSE rejected
                       /\ UNCHANGED gresult
    /\ calls' = [calls EXCEPT ![current_key_index] = @ + 1]
    /\ retried' = IF current_key_index \in rejected
                    THEN retried \cup {current_key_index} ELSE retried
    /\ waited' = "none"
    /\ UNCHANGED <<today, current_key_index, current_api_key, attempt, lastCan,
                   usedEarlier, startedEmpty, skipped, lastSwitch, test_status, notQuota>>

\* optimize_content, lines 269, 279, 295, 300: time.sleep, then the break of
\* line 296 after a quota rejection, or the next turn of the inner loop
oc_sleep ==
    /\ gpc = "sleep"
    /\ IF lastReply = "quota"
         THEN /\ waited' = "quota"
              /\ key_index' = key_index + 1
              /\ gpc' = "key"
              /\ UNCHANGED attempt
         ELSE /\ waited' = "retry"
              /\ IF ~AttemptsLeft(attempt)
                   THEN /\ key_index' = key_index + 1
                        /\ gpc' = "key"
                        /\ UNCHANGED attempt
                   ELSE /\ attempt' = attempt + 1
                        /\ gpc' = "attempt"
                        /\ UNCHANGED key_index
    /\ lastReply' = "none"
    /\ parses' = 0
    /\ NoLedgerIO
    /\ UNCHANGED <<today, quotaFile, current_key_index, current_api_key, gresult,
                   lastCan, recordUses, usedEarlier, startedEmpty, rejected, calls,
                   skipped, retried, lastSwitch, test_status, notQuota>>

\* optimize_content, lines 276 and 307: the return to the caller, which takes
\* the result; the locals of the invocation are gone
oc_return ==
    /\ gpc = "done"
    /\ gpc' = "idle"
    /\ key_index' = 0
    /\ attempt' = 0
    /\ gresult' = "none"
    /\ rejected' = {}
    /\ calls' = NoCalls
    /\ skipped' = {}
    /\ retried' = {}
    /\ waited' = "none"
    /\ lastReply' = "none"
    /\ parses' = 0
    /\ NoLedgerIO
    /\ UNCHANGED <<today, quotaFile, current_key_index, current_api_key, lastCan,
                   recordUses, usedEarlier, startedEmpty, lastSwitch, test_status,
                   notQuota>>

\* the client after construction, __init__ lines 32-34, with nothing running
ClientConstructed ==
    /\ current_key_index = 0
    /\ current_api_key = api_keys[1]
    /\ gpc = "idle"
    /\ key_index = 0
    /\ attempt = 0
    /\ gresult = "none"
    /\ lastCan = TRUE
    /\ readFaults = 0
    /\ writeFaults = 0
    /\ recordUses = [id \in KeyIds |-> 0]
    /\ usedEarlier = 0
    /\ rejected = {}
    /\ calls = NoCalls
    /\ skipped = {}
    /\ retried = {}
    /\ waited = "none"
    /\ lastReply = "none"
    /\ parses = 0
    /\ lastSwitch = "none"
    /\ test_status = "none"

\* the parts that do not use the client keep it idle, with no ledger file
QuotaIdle ==
    /\ ClientConstructed
    /\ today = 1
    /\ quotaFile = EmptyLedger
    /\ startedEmpty = [id \in KeyIds |-> TRUE]

\* the records a ledger file holds for one key when the client starts
StartRecords ==
    { NoRecord,
      [present |-> TRUE, date |-> 1, requests |-> max_daily_requests - 1],
      [present |-> TRUE, date |-> 0, requests |-> max_daily_requests] }

\* the records a ledger file holds for one key when a rotation starts: none,
\* or the cap reached under the current date
RotateRecords ==
    { NoRecord,
      [present |-> TRUE, date |-> 1, requests |-> max_daily_requests] }

(***************************************************************************)
(* dashboard.py: the outcome log (table optimization_history)              *)
(***************************************************************************)
NumPosts == 3
MaxAttempts == 2
MaxDbFaults == 1

\* the ids of the posts the content backend holds, in listing order
Posts == 1..NumPosts
AllPosts == [i \in 1..NumPosts |-> i]

\* get_posts_by_author: the listing, or [] when the request fails
Listings == {<< >>, AllPosts}

\* the row log_optimization inserts; optimization_date defaults to the clock
LogRow(post_id, status) == [post_id |-> post_id, status |-> status, date |-> now]

\* SELECT DISTINCT post_id ... WHERE status = 'success'
SuccessIds(rows) == {r.post_id : r \in {x \in rows : x.status = "success"}}

\* the INSERT of log_optimization either commits or raises (sqlite3 error)
DbWrite(wrote) ==
    /\ dbFaults + (IF wrote THEN 0 ELSE 1) <= MaxDbFaults
    /\ dbFaults' = IF wrote THEN dbFaults ELSE dbFaults + 1

\* the first n elements of a list: s[:n]
Take(s, n) == SubSeq(s, 1, IF Len(s) < n THEN Len(s) ELSE n)

\* the list comprehension [x for x in s if x in keep]
RECURSIVE FilterSeq(_, _)
FilterSeq(s, keep) ==
    IF s = << >> THEN << >>
    ELSE IF Head(s) \in keep THEN <<Head(s)>> \o FilterSeq(Tail(s), keep)
         ELSE FilterSeq(Tail(s), keep)

\* an external call leaves one mark in the attempt's record of events
External(trace) ==
    IF trace # << >> /\ trace[Len(trace)] = "external" THEN trace
    ELSE Append(trace, "external")

(***************************************************************************)
(* main.py: SEOOptimizer                                                   *)
(***************************************************************************)
BatchLimit == 2

\* _get_successfully_optimized_post_ids: the empty set when the database
\* file is missing or the query raises
SuccessfullyOptimizedPostIds(readOk) == IF readOk THEN SuccessIds(history) ELSE {}

\* get_new_posts
GetNewPosts(posts, readOk) ==
    FilterSeq(posts, (Posts \ processed_posts) \ SuccessfullyOptimizedPostIds(readOk))

\* the positions of the orchestrator inside optimize_post
AttemptPcs == {"steps", "media", "generate", "no_content", "dry", "update",
               "updated_ok", "updated_fail", "except"}

\* the post optimize_post is working on
CurrentPost == posts_to_process[idx]

\* run_optimization_cycle up to the loop: selection and the cap of the batch
run_optimization_cycle ==
    /\ opc = "idle"
    /\ \E posts \in Listings, readOk \in BOOLEAN :
         LET new_posts == GetNewPosts(posts, readOk) IN
         IF new_posts = << >>
         THEN UNCHANGED <<opc, posts_to_process, idx>>
         ELSE /\ posts_to_process' = Take(new_posts, BatchLimit)
              /\ idx' = 1
              /\ opc' = "optimize"
    /\ UNCHANGED <<history, processed_posts, dry_run, otrace, attempts, dbFaults,
                   dashVars, pending, notOpt>>

\* optimize_post, line 174: mark_post_processing, outside the try block; an
\* exception leaves optimize_post and ends the cycle (line 254)
op_mark_processing ==
    /\ opc = "optimize"
    /\ attempts < MaxAttempts
    /\ attempts' = attempts + 1
    /\ \E wrote \in BOOLEAN :
         /\ DbWrite(wrote)
         /\ IF wrote
            THEN /\ history' = history \cup {LogRow(CurrentPost, "processing")}
                 /\ otrace' = <<"processing">>
                 /\ opc' = "steps"
            ELSE /\ history' = history
                 /\ otrace' = <<"log_error">>
                 /\ opc' = "raised"
    /\ UNCHANGED <<processed_posts, dry_run, posts_to_process, idx,
                   dashVars, pending, notOpt>>

\* _perform_optimization_steps, 1: get_post_tags and get_post_categories
op_fetch_metadata ==
    /\ opc = "steps"
    /\ otrace' = External(otrace)
    /\ opc' = "media"
    /\ UNCHANGED <<history, processed_posts, dry_run, posts_to_process, idx,
                   attempts, dbFaults, dashVars, pending, notOpt>>

\* _perform_optimization_steps, 2: find_media_for_post returns a bundle or raises
op_find_media ==
    /\ opc = "media"
    /\ otrace' = External(otrace)
    /\ \E raised \in BOOLEAN : opc' = IF raised THEN "except" ELSE "generate"
    /\ UNCHANGED <<history, processed_posts, dry_run, posts_to_process, idx,
                   attempts, dbFaults, dashVars, pending, notOpt>>

\* what optimize_content hands back: the parsed content, None, or an exception
Generated == {"content", "none", "raise"}

\* how a generation ends: with parsed content, with every reply unparseable
\* (a section missing), with the keys exhausted or rejected for quota, or
\* with an exception
GenOutcomes == {"content", "parse", "quota", "raise"}

\* optimize_content, lines 276 and 307: the parsed result, or None whatever
\* the reason
OptimizeContentReturn(outcome) ==
    IF outcome \in {"parse", "quota"} THEN "none" ELSE outcome

\* main.py, lines 180-182, 212-214, 218-220: the error_message of the row
OrchReason(branch) ==
    CASE branch = "no_content" -> "no_content_from_gemini"
      [] branch = "updated_fail" -> "update_failed"
      [] branch = "except" -> "exception_text"
      [] OTHER -> "none"

\* _perform_optimization_steps, 3, and the branches of lines 179 and 185
op_generate ==
    /\ opc = "generate"
    /\ \E outcome \in GenOutcomes :
         LET g == OptimizeContentReturn(outcome) IN
         /\ cause' = IF g = "none" THEN outcome ELSE cause
         /\ otrace' = IF g = "content" THEN Append(External(otrace), "content")
                      ELSE External(otrace)
         /\ opc' = CASE g = "raise" -> "except"
                     [] g = "none" -> "no_content"
                     [] OTHER -> IF dry_run THEN "dry" ELSE "update"
    /\ UNCHANGED <<history, processed_posts, dry_run, posts_to_process, idx,
                   attempts, dbFaults, dashVars, pending, reason, notOptFail>>

\* lines 205-215 with a retry of the write on failure
AfterUpdateRetry(success) == IF success THEN "updated_ok" ELSE "update"

\* lines 205-215: the branch taken on update_post's result
AfterUpdate(success) == IF success THEN "updated_ok" ELSE "updated_fail"

\* update_post's result enters the attempt's record of events
UpdateEvent(success) == IF success THEN "update_ok" ELSE "update_fail"

\* optimize_post, line 198: wp_client.update_post returns True or False
op_update_post ==
    /\ opc = "update"
    /\ \E success \in BOOLEAN :
         /\ cause' = IF success THEN cause ELSE "update"
         /\ otrace' = Append(otrace, UpdateEvent(success))
         /\ opc' = AfterUpdate(success)
    /\ UNCHANGED <<history, processed_posts, dry_run, posts_to_process, idx,
                   attempts, dbFaults, dashVars, pending, reason, notOptFail>>

\* the branches of optimize_post that end with a row of the outcome log
OutcomeBranches == {"no_content", "dry", "updated_ok", "updated_fail"}

\* the same, with an attempt without content left in 'processing'
TerminalStatusNoneSkipped(branch) ==
    IF branch \in {"dry", "updated_ok"} THEN "success"
    ELSE IF branch = "no_content" THEN "processing" ELSE "failed"

\* the status each branch logs: lines 182, 192, 208, 214
TerminalStatus(branch) ==
    IF branch \in {"dry", "updated_ok"} THEN "success" ELSE "failed"

\* optimize_post, lines 182, 192-193, 208-209, 214: log_optimization inside the
\* try block; when the INSERT raises, control passes to the handler of line 217
op_log_outcome ==
    /\ opc \in OutcomeBranches
    /\ \E wrote \in BOOLEAN :
         /\ DbWrite(wrote)
         /\ IF wrote
            THEN /\ history' = history \cup {LogRow(CurrentPost, TerminalStatus(opc))}
                 /\ otrace' = Append(otrace, TerminalStatus(opc))
                 /\ reason' = OrchReason(opc)
                 /\ processed_posts' = IF TerminalStatus(opc) = "success"
                                       THEN processed_posts \cup {CurrentPost}
                                       ELSE processed_posts
                 /\ opc' = "returned"
            ELSE /\ otrace' = Append(otrace, "log_error")
                 /\ opc' = "except"
                 /\ UNCHANGED <<history, processed_posts, reason>>
    /\ cause' = "none"
    /\ UNCHANGED <<dry_run, posts_to_process, idx, attempts, dashVars, pending, notOptFail>>

\* optimize_post, lines 217-221: the handler logs 'failed'; when this INSERT
\* raises too, the exception leaves optimize_post and ends the cycle (line 254)
op_except ==
    /\ opc = "except"
    /\ \E wrote \in BOOLEAN :
         /\ DbWrite(wrote)
         /\ IF wrote
            THEN /\ history' = history \cup {LogRow(CurrentPost, "failed")}
                 /\ otrace' = Append(otrace, "failed")
                 /\ reason' = OrchReason("except")
                 /\ opc' = "returned"
            ELSE /\ UNCHANGED <<history, reason>>
                 /\ otrace' = Append(otrace, "log_error")
                 /\ opc' = "raised"
    /\ cause' = "none"
    /\ UNCHANGED <<processed_posts, dry_run, posts_to_process, idx, attempts,
                   dashVars, pending, notOptFail>>

\* run_optimization_cycle, line 250: a delay mentioned after every post
DelayDueAlways(i, n) == i <= n

\* run_optimization_cycle, line 250, "if i < len(posts_to_process) - 1" with
\* the loop's i counted from 0 and the model's from 1
DelayDue(i, n) == i < n

\* run_optimization_cycle, lines 244-251: optimize_post has returned, with
\* or without success, and a post remains: time.sleep(30)
cycle_sleep ==
    /\ opc = "returned"
    /\ DelayDue(idx, Len(posts_to_process))
    /\ opc' = "delay"
    /\ otrace' = << >>
    /\ cause' = "none"
    /\ reason' = "none"
    /\ UNCHANGED <<history, processed_posts, dry_run, posts_to_process, idx,
                   attempts, dbFaults, dashVars, pending, notOptFail>>

\* the loop after the delay: the next post of the batch, or the end of the
\* loop when there is none
cycle_next_post ==
    /\ opc = "delay"
    /\ IF idx < Len(posts_to_process)
       THEN /\ idx' = idx + 1
            /\ opc' = "optimize"
       ELSE /\ idx' = idx
            /\ opc' = "idle"
    /\ UNCHANGED <<history, processed_posts, dry_run, posts_to_process, otrace,
                   attempts, dbFaults, dashVars, pending, notOpt>>

\* run_optimization_cycle, line 252: optimize_post has returned for the last
\* post of the batch, no delay
cycle_complete ==
    /\ opc = "returned"
    /\ ~DelayDue(idx, Len(posts_to_process))
    /\ opc' = "idle"
    /\ otrace' = << >>
    /\ cause' = "none"
    /\ reason' = "none"
    /\ UNCHANGED <<history, processed_posts, dry_run, posts_to_process, idx,
                   attempts, dbFaults, dashVars, pending, notOptFail>>

\* run_optimization_cycle, lines 254-255: an exception that left optimize_post
\* ends the cycle
cycle_except ==
    /\ opc = "raised"
    /\ opc' = "idle"
    /\ otrace' = << >>
    /\ cause' = "none"
    /\ reason' = "none"
    /\ UNCHANGED <<history, processed_posts, dry_run, posts_to_process, idx,
                   attempts, dbFaults, dashVars, pending, notOptFail>>

\* the process ends (interrupt, crash, --once) and main() starts again:
\* SEOOptimizer.__init__ gives a fresh processed_posts and reads --dry-run
process_restart ==
    /\ processed_posts' = {}
    /\ dry_run' \in BOOLEAN
    /\ opc' = "idle"
    /\ posts_to_process' = << >>
    /\ idx' = 0
    /\ otrace' = << >>
    /\ cause' = "none"
    /\ reason' = "none"
    /\ UNCHANGED <<history, attempts, dbFaults, dashVars, pending, notOptFail>>

(***************************************************************************)
(* dashboard.py: the endpoints that write the outcome log                  *)
(***************************************************************************)
\* api_optimize_post, lines 337-345: get_post, the 404 reply, get_post_tags
api_get_post(post_id) ==
    /\ dpc = "idle"
    /\ attempts < MaxAttempts
    /\ attempts' = attempts + 1
    /\ dpost' = post_id
    /\ dtrace' = <<"external">>
    /\ \E found \in BOOLEAN : dpc' = IF found THEN "mark" ELSE "replied"
    /\ UNCHANGED <<history, dbFaults, orchVars, pending, notOpt>>

\* api_optimize_post, line 348: mark_post_processing, inside the try block
api_mark_processing ==
    /\ dpc = "mark"
    /\ \E wrote \in BOOLEAN :
         /\ DbWrite(wrote)
         /\ IF wrote
            THEN /\ history' = history \cup {LogRow(dpost, "processing")}
                 /\ dtrace' = Append(dtrace, "processing")
                 /\ dpc' = "media"
            ELSE /\ history' = history
                 /\ dtrace' = Append(dtrace, "log_error")
                 /\ dpc' = "except"
    /\ UNCHANGED <<dpost, attempts, orchVars, pending, notOpt>>

\* api_optimize_post, line 351: find_media_for_post
api_find_media ==
    /\ dpc = "media"
    /\ dtrace' = External(dtrace)
    /\ \E raised \in BOOLEAN : dpc' = IF raised THEN "except" ELSE "generate"
    /\ UNCHANGED <<history, dpost, attempts, dbFaults, orchVars, pending, notOpt>>

\* api_optimize_post, lines 354-363: optimize_content and the branch on its result
api_generate ==
    /\ dpc = "generate"
    /\ \E g \in Generated :
         /\ dtrace' = IF g = "content" THEN Append(External(dtrace), "content")
                      ELSE External(dtrace)
         /\ dpc' = CASE g = "raise" -> "except"
                     [] g = "none" -> "no_content"
                     [] OTHER -> "update"
    /\ UNCHANGED <<history, dpost, attempts, dbFaults, orchVars, pending, notOpt>>

\* api_optimize_post, lines 365-372: update_post and the branch on its result
api_update_post ==
    /\ dpc = "update"
    /\ \E success \in BOOLEAN :
         /\ dtrace' = Append(dtrace, UpdateEvent(success))
         /\ dpc' = IF success THEN "updated_ok" ELSE "updated_fail"
    /\ UNCHANGED <<history, dpost, attempts, dbFaults, orchVars, pending, notOpt>>

\* the status each branch of the endpoint logs: lines 373, 376, 380
ApiStatus(branch) == IF branch = "updated_ok" THEN "success" ELSE "failed"

\* api_optimize_post, lines 373, 376, 380: log_optimization inside the try block
api_log_outcome ==
    /\ dpc \in {"no_content", "updated_ok", "updated_fail"}
    /\ \E wrote \in BOOLEAN :
         /\ DbWrite(wrote)
         /\ IF wrote
            THEN /\ history' = history \cup {LogRow(dpost, ApiStatus(dpc))}
                 /\ dtrace' = Append(dtrace, ApiStatus(dpc))
                 /\ dpc' = "replied"
            ELSE /\ history' = history
                 /\ dtrace' = Append(dtrace, "log_error")
                 /\ dpc' = "except"
    /\ UNCHANGED <<dpost, attempts, orchVars, pending, notOpt>>

\* api_optimize_post, lines 383-386: the handler logs 'failed'; when this
\* INSERT raises the request ends with the framework's error reply
api_except ==
    /\ dpc = "except"
    /\ \E wrote \in BOOLEAN :
         /\ DbWrite(wrote)
         /\ IF wrote
            THEN /\ history' = history \cup {LogRow(dpost, "failed")}
                 /\ dtrace' = Append(dtrace, "failed")
            ELSE /\ history' = history
                 /\ dtrace' = Append(dtrace, "log_error")
    /\ dpc' = "replied"
    /\ UNCHANGED <<dpost, attempts, orchVars, pending, notOpt>>

\* api_optimize_post: the return of the JSON reply ends the request
api_reply ==
    /\ dpc = "replied"
    /\ dpc' = "idle"
    /\ dpost' = 0
    /\ dtrace' = << >>
    /\ UNCHANGED <<history, attempts, dbFaults, orchVars, pending, notOpt>>

\* api_mark_success: get_post, then a 'success' row when the post exists
api_mark_success(post_id) ==
    /\ dpc = "idle"
    /\ attempts < MaxAttempts
    /\ attempts' = attempts + 1
    /\ \E found \in BOOLEAN, wrote \in BOOLEAN :
         IF found
         THEN /\ DbWrite(wrote)
              /\ history' = IF wrote THEN history \cup {LogRow(post_id, "success")}
                            ELSE history
         ELSE UNCHANGED <<history, dbFaults>>
    /\ UNCHANGED <<dpc, dpost, dtrace, orchVars, pending, notOpt>>

(***************************************************************************)
(* dashboard.py: the dashboard's candidate selection                       *)
(***************************************************************************)
NumListed == 6
MaxRows == 2
MaxPendingClock == 5400

ProcessingStaleSeconds == 3600
PendingBatch == 5

\* the posts the backend lists for the dashboard
Listed == 1..NumListed
ListedPosts == [i \in 1..NumListed |-> i]
PendingListings == {<< >>, ListedPosts}

\* no selection has been answered since the last change
NoResult == [valid |-> FALSE, listed |-> << >>, readOk |-> FALSE, result |-> << >>]

\* a 'processing' row of any age counts as in progress
IsInProgressAnyAge(date) == TRUE

\* datetime(optimization_date) > datetime('now', '-1 hour')
IsInProgress(date) == date > now - ProcessingStaleSeconds

\* optimization_date < datetime('now', '-1 hour')
IsOldProcessing(date) == date < now - ProcessingStaleSeconds

\* SELECT DISTINCT post_id ... WHERE status = 'processing' AND (in progress)
ProcessingIds(rows) ==
    {r.post_id : r \in {x \in rows : x.status = "processing" /\ IsInProgress(x.date)}}

\* the DELETE of clear_old_processing_status; nothing changes when it raises
ClearOldProcessing(rows, cleared) ==
    IF cleared
    THEN rows \ {r \in rows : r.status = "processing" /\ IsOldProcessing(r.date)}
    ELSE rows

\* get_pending_posts on the rows the request finds; [] when the query raises
GetPendingPosts(posts, rows, readOk) ==
    IF readOk
    THEN Take(FilterSeq(posts, Listed \ (SuccessIds(rows) \cup ProcessingIds(rows))),
              PendingBatch)
    ELSE << >>

\* before_request_hook on a request that does not select or write
before_request_hook ==
    /\ \E cleared \in BOOLEAN : history' = ClearOldProcessing(history, cleared)
    /\ pending' = NoResult
    /\ UNCHANGED <<attempts, dbFaults, orchVars, dashVars, notOpt>>

\* GET /api/pending-posts: before_request_hook, then get_pending_posts
api_pending_posts ==
    /\ \E cleared \in BOOLEAN, posts \in PendingListings, readOk \in BOOLEAN :
         /\ history' = ClearOldProcessing(history, cleared)
         /\ pending' = [valid |-> TRUE, listed |-> posts, readOk |-> readOk,
                        result |-> GetPendingPosts(posts, history', readOk)]
    /\ UNCHANGED <<attempts, dbFaults, orchVars, dashVars, notOpt>>

\* log_optimization called for a listed post, by any writer of the log
log_optimization(post_id, status) ==
    /\ Cardinality(history) < MaxRows
    /\ history' = history \cup {LogRow(post_id, status)}
    /\ pending' = NoResult
    /\ UNCHANGED <<attempts, dbFaults, orchVars, dashVars, notOpt>>

\* the clock of the dashboard's host
PendingTick ==
    /\ now + TickSeconds <= MaxPendingClock
    /\ Tick
    /\ pending' = NoResult
    /\ UNCHANGED <<history, attempts, dbFaults, orchVars, dashVars, lockVars, quotaVars, parseVars,
                   failVars, startVars, tmdbVars, sharedVars>>

(***************************************************************************)
(* gemini_client.py: _parse_response and the reply layout of the prompt.   *)
(* A text is a sequence of tokens: the three section headers (each begins  *)
(* with "## "), the newline, the space, and a character of ordinary text.  *)
(***************************************************************************)
MaxLines == 6
MaxField == 2

\* '## Novo Título:', '## Novo Resumo:', '## Novo Conteúdo:'
TitleHeader == "HT"
ExcerptHeader == "HE"
ContentHeader == "HC"
Headers == {TitleHeader, ExcerptHeader, ContentHeader}

\* what \s matches and str.strip() removes
IsSpace(t) == t \in {"NL", "SP"}

RECURSIVE LStrip(_)
LStrip(s) == IF s = << >> \/ ~IsSpace(Head(s)) THEN s ELSE LStrip(Tail(s))

RECURSIVE RStrip(_)
RStrip(s) ==
    IF s = << >> \/ ~IsSpace(s[Len(s)]) THEN s
    ELSE RStrip(SubSeq(s, 1, Len(s) - 1))

\* a section taken as the group matched it
NoStrip(s) == s

\* .strip(), lines 206-208
Strip(s) == RStrip(LStrip(s))

\* \s* after a header at position i: the last position of the whitespace run
RunEnd(text, i) ==
    CHOOSE k \in i..Len(text) :
        /\ \A m \in (i + 1)..k : IsSpace(text[m])
        /\ k = Len(text) \/ ~IsSpace(text[k + 1])

\* \s*\n, greedy: the newlines the run after the header at i holds
RunNewlines(text, i) == {p \in (i + 1)..RunEnd(text, i) : text[p] = "NL"}

Max(S) == CHOOSE x \in S : \A y \in S : y <= x
Min(S) == CHOOSE x \in S : \A y \in S : x <= y

\* re.search: the leftmost header that \s*\n can follow (0: no match)
SearchHeader(text, header) ==
    LET at == {i \in 1..Len(text) : text[i] = header /\ RunNewlines(text, i) # {}}
    IN  IF at = {} THEN 0 ELSE Min(at)

\* the position where the group starts: after the last newline of the run
GroupStart(text, i) == Max(RunNewlines(text, i)) + 1

\* $ without re.MULTILINE: the end of the text, or just before a newline
\* that ends it
AtEnd(text, e) ==
    \/ e = Len(text) + 1
    \/ e = Len(text) /\ text[e] = "NL"

\* (?=\n## ): a newline followed by a line that begins with "## "
AtNextHeading(text, e) ==
    /\ e < Len(text)
    /\ text[e] = "NL"
    /\ text[e + 1] \in Headers

\* (.*?)(?=\n## |$) with re.DOTALL, lines 195-196: the group of a match at i
SectionGroup(text, i) ==
    LET g == GroupStart(text, i)
        e == Min({x \in g..(Len(text) + 1) : AtNextHeading(text, x) \/ AtEnd(text, x)})
    IN  SubSeq(text, g, e - 1)

\* (.*?)$ with re.DOTALL, line 197: the group of a match at i
ContentGroup(text, i) ==
    LET g == GroupStart(text, i)
        e == Min({x \in g..(Len(text) + 1) : AtEnd(text, x)})
    IN  SubSeq(text, g, e - 1)

\* _parse_response returned None
ParseNone == [title |-> << >>, excerpt |-> << >>, content |-> << >>]

\* _parse_response, lines 191-223
ParseResponse(text) ==
    LET title_match == SearchHeader(text, TitleHeader)
        excerpt_match == SearchHeader(text, ExcerptHeader)
        content_match == SearchHeader(text, ContentHeader)
    IN  IF title_match = 0 \/ excerpt_match = 0 \/ content_match = 0
          THEN ParseNone
          ELSE LET result ==
                     [title |-> Strip(SectionGroup(text, title_match)),
                      excerpt |-> Strip(SectionGroup(text, excerpt_match)),
                      content |-> Strip(ContentGroup(text, content_match))]
               IN  IF result.title = << >> \/ result.excerpt = << >>
                        \/ result.content = << >>
                     THEN ParseNone
                     ELSE result

\* the reply layout the prompt asks for, lines 157-166
Render(t) ==
    <<TitleHeader, "NL">> \o t.title
        \o <<"NL", "NL", ExcerptHeader, "NL">> \o t.excerpt
        \o <<"NL", "NL", ContentHeader, "NL">> \o t.content

\* the lines a reply is made of
ReplyLines ==
    { <<TitleHeader>>, <<ExcerptHeader>>, <<ContentHeader>>,
      <<"a">>, << >>, <<"SP", "a", "SP">> }

\* "\n".join(lines)
RECURSIVE JoinLines(_)
JoinLines(ls) ==
    IF ls = << >> THEN << >>
    ELSE IF Len(ls) = 1 THEN ls[1]
    ELSE ls[1] \o <<"NL">> \o JoinLines(Tail(ls))

\* the replies of at most max lines; response.text is not empty (line 267)
LineReplies(max) ==
    { JoinLines(ls) : ls \in UNION {[1..n -> ReplyLines] : n \in 1..max} }
        \ {<< >>}

\* the strings a field of a rendered triple is drawn from: not empty
FieldTokens == {"a", "SP", "NL", ExcerptHeader}
Fields(max) == UNION {[1..n -> FieldTokens] : n \in 1..max}

NoTriple == ParseNone

\* self._parse_response(response.text), line 272
parse_response ==
    /\ ppc = "reply"
    /\ ppc' = "parsed"
    /\ parsed_result' = ParseResponse(response_text)
    /\ UNCHANGED <<response_text, echo, notParse>>

\* the parts that parse nothing
ParseIdle ==
    /\ response_text = << >>
    /\ echo = NoTriple
    /\ ppc = "idle"
    /\ parsed_result = ParseNone

(***************************************************************************)
(* tmdb_client.py: the title extractors.  A text is a sequence of tokens   *)
(* separated by single spaces; a token is a phrase as it was typed (its    *)
(* spelling in the pattern table and its letter case), the stop word       *)
(* "nova" or a comma.  A string the extractors return is such a phrase.    *)
(***************************************************************************)
MaxTitleTokens == 2
MaxContentTokens == 3

\* letter cases in which a phrase is typed: as the table spells it, or all
\* in lower case
Cases == {"listed", "lower"}

Typed(name, case) == [text |-> name, case |-> case]
AsListed(name) == Typed(name, "listed")

\* the empty string
EmptyTitle == AsListed("")

\* _extract_main_title_from_post, lines 187-205: franchise_patterns, each
\* pattern with its alternatives in order
FranchisePatterns ==
    << <<"The Walking Dead", "Walking Dead">>,
       <<"Stranger Things">>,
       <<"Game of Thrones">>,
       <<"House of the Dragon">>,
       <<"The Last of Us">>,
       <<"Marvel", "MCU">>,
       <<"DC Comics", "DC Universe">>,
       <<"Star Wars">>,
       <<"Harry Potter">>,
       <<"Breaking Bad", "Better Call Saul">>,
       <<"The Boys">>,
       <<"Wednesday", "Wandinha">>,
       <<"Euphoria">>,
       <<"Avatar">>,
       <<"John Wick">>,
       <<"Fast and Furious", "Fast & Furious", "Velozes e Furiosos">>,
       <<"Mission Impossible", "Missão Impossível">> >>

\* _extract_potential_titles, lines 330-344: franchise_patterns
ContentFranchisePatterns ==
    << <<"The Walking Dead", "Walking Dead">>,
       <<"Stranger Things">>,
       <<"Game of Thrones">>,
       <<"House of the Dragon">>,
       <<"The Last of Us">>,
       <<"Breaking Bad", "Better Call Saul">>,
       <<"The Boys">>,
       <<"Wednesday", "Wandinha">>,
       <<"Euphoria">>,
       <<"Avatar">>,
       <<"John Wick">>,
       <<"Fast and Furious", "Fast & Furious", "Velozes e Furiosos">>,
       <<"Mission Impossible", "Missão Impossível">> >>

\* the alternatives of a pattern, as a set
Alternatives(pattern) == {pattern[k] : k \in 1..Len(pattern)}

\* a token is matched by a pattern compiled with re.IGNORECASE: its
\* spelling is one of the alternatives, in whatever letter case
Matches(pattern, token) == token.text \in Alternatives(pattern)

\* re.search(pattern, text, re.IGNORECASE): the position of the leftmost
\* match, 0 when there is none
Search(pattern, text) ==
    LET hits == {i \in 1..Len(text) : Matches(pattern, text[i])}
    IN  IF hits = {} THEN 0 ELSE Min(hits)

\* _extract_main_title_from_post, lines 213-222: title_map.get(title, title),
\* a dictionary lookup by the exact string
TitleMap(title) ==
    IF title.case # "listed" THEN title
    ELSE CASE title.text = "Walking Dead" -> AsListed("The Walking Dead")
           [] title.text = "MCU" -> AsListed("Marvel")
           [] title.text = "DC Comics" -> AsListed("DC")
           [] title.text = "DC Universe" -> AsListed("DC")
           [] title.text = "Velozes e Furiosos" -> AsListed("Fast and Furious")
           [] title.text = "Missão Impossível" -> AsListed("Mission Impossible")
           [] OTHER -> title

\* _extract_main_title_from_post, lines 208-224, from pattern k on: the first
\* pattern that matches decides; match.group(1) is the phrase as typed
RECURSIVE FranchiseTitle(_, _)
FranchiseTitle(text, k) ==
    IF k > Len(FranchisePatterns) THEN EmptyTitle
    ELSE IF Search(FranchisePatterns[k], text) # 0
         THEN TitleMap(text[Search(FranchisePatterns[k], text)])
         ELSE FranchiseTitle(text, k + 1)

\* _extract_main_title_from_post: the franchise table first; a text of stop
\* words and commas matches no enhanced pattern (lines 227-248) and has no
\* meaningful word (lines 251-266), so the result is ""
ExtractMainTitleFromPost(text) == FranchiseTitle(text, 1)

\* _extract_potential_titles, lines 354-361: the normalisation of a match
NormalizeMatch(match) ==
    IF match.text \in {"The Walking Dead", "Walking Dead"} THEN AsListed("The Walking Dead")
    ELSE IF match.text = "Velozes e Furiosos" THEN AsListed("Fast and Furious")
    ELSE IF match.text = "Missão Impossível" THEN AsListed("Mission Impossible")
    ELSE match

\* x in titles
InList(x, titles) == \E i \in 1..Len(titles) : titles[i] = x

\* _extract_potential_titles, lines 351-364: the matches of one pattern, left
\* to right from position i, each appended unless the list holds it
RECURSIVE AppendMatches(_, _, _, _)
AppendMatches(titles, pattern, text, i) ==
    IF i > Len(text) THEN titles
    ELSE IF Matches(pattern, text[i]) /\ ~InList(NormalizeMatch(text[i]), titles)
         THEN AppendMatches(Append(titles, NormalizeMatch(text[i])), pattern, text, i + 1)
         ELSE AppendMatches(titles, pattern, text, i + 1)

\* _extract_potential_titles, lines 349-364: the patterns in order, from k on
RECURSIVE FranchiseTitles(_, _, _)
FranchiseTitles(titles, text, k) ==
    IF k > Len(ContentFranchisePatterns) THEN titles
    ELSE FranchiseTitles(AppendMatches(titles, ContentFranchisePatterns[k], text, 1),
                         text, k + 1)

\* _extract_potential_titles, line 398: titles[:2]
ContentCap(titles) == Take(titles, 2)

\* _extract_potential_titles: the franchise matches; a text of stop words
\* and commas matches no enhanced pattern (lines 367-395)
ExtractPotentialTitles(content) == ContentCap(FranchiseTitles(<< >>, content, 1))

\* list(dict.fromkeys(s)): the first occurrence of every string, in order
RECURSIVE DictFromKeys(_)
DictFromKeys(s) ==
    IF s = << >> THEN << >>
    ELSE LET rest == DictFromKeys(SubSeq(s, 1, Len(s) - 1))
         IN  IF InList(s[Len(s)], rest) THEN rest ELSE Append(rest, s[Len(s)])

\* find_media_for_post, lines 432-433: the main title first when it is not
\* empty, then the content titles, without repeated strings
PotentialTitles(main, titles) ==
    DictFromKeys(IF main # EmptyTitle THEN <<main>> \o titles ELSE titles)

\* what _is_valid_title measures on a string: len(title), its letters
\* [A-Za-z], and its words that are not generic and longer than 2 (the same
\* in either letter case); none of the strings holds a skip phrase
Shape(text) ==
    CASE text = "The Walking Dead" -> [len |-> 16, letters |-> 14, words |-> 2]
      [] text = "Walking Dead" -> [len |-> 12, letters |-> 11, words |-> 2]
      [] text = "Stranger Things" -> [len |-> 15, letters |-> 14, words |-> 2]
      [] text = "Game of Thrones" -> [len |-> 15, letters |-> 13, words |-> 2]
      [] text = "House of the Dragon" -> [len |-> 19, letters |-> 16, words |-> 2]
      [] text = "The Last of Us" -> [len |-> 14, letters |-> 11, words |-> 1]
      [] text = "Marvel" -> [len |-> 6, letters |-> 6, words |-> 1]
      [] text = "MCU" -> [len |-> 3, letters |-> 3, words |-> 1]
      [] text = "DC Comics" -> [len |-> 9, letters |-> 8, words |-> 1]
      [] text = "DC Universe" -> [len |-> 11, letters |-> 10, words |-> 1]
      [] text = "Star Wars" -> [len |-> 9, letters |-> 8, words |-> 2]
      [] text = "Harry Potter" -> [len |-> 12, letters |-> 11, words |-> 2]
      [] text = "Breaking Bad" -> [len |-> 12, letters |-> 11, words |-> 2]
      [] text = "Better Call Saul" -> [len |-> 16, letters |-> 14, words |-> 3]
      [] text = "The Boys" -> [len |-> 8, letters |-> 7, words |-> 1]
      [] text = "Wednesday" -> [len |-> 9, letters |-> 9, words |-> 1]
      [] text = "Wandinha" -> [len |-> 8, letters |-> 8, words |-> 1]
      [] text = "Euphoria" -> [len |-> 8, letters |-> 8, words |-> 1]
      [] text = "Avatar" -> [len |-> 6, letters |-> 6, words |-> 1]
      [] text = "John Wick" -> [len |-> 9, letters |-> 8, words |-> 2]
      [] text = "Fast and Furious" -> [len |-> 16, letters |-> 14, words |-> 2]
      [] text = "Fast & Furious" -> [len |-> 14, letters |-> 11, words |-> 2]
      [] text = "Velozes e Furiosos" -> [len |-> 18, letters |-> 16, words |-> 2]
      [] text = "Mission Impossible" -> [len |-> 18, letters |-> 17, words |-> 2]
      [] text = "Missão Impossível" -> [len |-> 17, letters |-> 14, words |-> 2]
      [] text = "DC" -> [len |-> 2, letters |-> 2, words |-> 0]
      [] text = "nova" -> [len |-> 4, letters |-> 4, words |-> 1]
      [] text = "," -> [len |-> 1, letters |-> 0, words |-> 0]
      [] OTHER -> [len |-> 0, letters |-> 0, words |-> 0]

\* _is_valid_title, lines 268-314: the length between 3 and 50, no skip
\* phrase, a letter, at least half of the characters letters, a meaningful word
IsValidTitle(title) ==
    LET s == Shape(title.text)
    IN  /\ s.len >= 3 /\ s.len <= 50
        /\ s.letters >= 1
        /\ 2 * s.letters >= s.len
        /\ s.words >= 1

\* the filler of a text: a stop word and a comma
FillerTokens == {AsListed("nova"), AsListed(",")}

\* the tokens of the post titles and of the post contents that are tried
TitleTokens ==
    {Typed(n, c) : n \in {"Walking Dead", "Stranger Things"}, c \in Cases}
        \cup {AsListed("MCU"), AsListed("DC Comics")} \cup FillerTokens
ContentTokens ==
    {Typed("Stranger Things", c) : c \in Cases}
        \cup {AsListed("Walking Dead"), AsListed("Euphoria")}

\* the texts of at most max tokens
Texts(tokens, max) == UNION {[1..n -> tokens] : n \in 0..max}

\* find_media_for_post, lines 425-433, on a post's title and content
extract_titles ==
    /\ tpc = "idle"
    /\ \E title \in Texts(TitleTokens, MaxTitleTokens),
          content \in Texts(ContentTokens, MaxContentTokens) :
         LET main == ExtractMainTitleFromPost(title)
             titles == ExtractPotentialTitles(content)
         IN  /\ post_title' = title
             /\ post_content' = content
             /\ main_title' = main
             /\ content_titles' = titles
             /\ potential_titles' = PotentialTitles(main, titles)
    /\ tpc' = "extracted"
    /\ UNCHANGED <<mediaVars, notTmdb>>

\* no post has been looked at
TitlesIdle ==
    /\ tpc = "idle"
    /\ post_title = << >>
    /\ post_content = << >>
    /\ main_title = EmptyTitle
    /\ content_titles = << >>
    /\ potential_titles = << >>

(***************************************************************************)
(* tmdb_client.py: find_media_for_post.  The bundle is kept as the number  *)
(* of its found titles, posters, backdrops and trailers, and the kinds of  *)
(* video that were appended to its trailers.                               *)
(***************************************************************************)
MaxVideos == 3

\* find_media_for_post, lines 419-420: the category ids that set the order
MovieCategoryId == 24
TvCategoryId == 21

\* find_media_for_post, line 437: potential_titles[:3]
CandidateCap == 3

\* find_media_for_post, lines 487 and 524: videos[:2]
TrailerCap == 2

\* the keys of a search result that find_media_for_post reads ('name' for a
\* TV show where a movie has 'title')
MatchFields == {"title", "id", "poster_path", "backdrop_path"}

\* search_movie, search_tv_show: None
NoMatch == [found |-> FALSE, fields |-> {}]

\* what the catalog answers to a search: the request fails, the result list
\* is empty, or its first entry holds some of the keys
SearchReplies ==
    {[status |-> st, fields |-> {}] : st \in {"failed", "empty"}}
        \cup {[status |-> "results", fields |-> F] : F \in SUBSET MatchFields}

\* _make_request, lines 42-49, and search_movie, lines 71-80 (search_tv_show,
\* lines 102-111): the first result, None without one
SearchFirstResult(reply) ==
    IF reply.status = "results" THEN [found |-> TRUE, fields |-> reply.fields]
    ELSE NoMatch

\* "if movie", "if not movie": None and the empty dictionary are false
Truthy(match) == match.found /\ match.fields # {}

\* the videos of a reply, by type and site
VideoKinds ==
    {[type |-> "Trailer", site |-> "YouTube"],
     [type |-> "Teaser", site |-> "YouTube"],
     [type |-> "Clip", site |-> "YouTube"],
     [type |-> "Trailer", site |-> "Vimeo"]}

\* what the catalog answers to a videos request: the request fails, or a list
VideoReplies(max) ==
    {[status |-> "failed", results |-> << >>]}
        \cup {[status |-> "results", results |-> v] : v \in Texts(VideoKinds, max)}

\* a filter that takes every video
AnyVideo(video) == TRUE

\* get_movie_videos, line 121 (get_tv_videos, line 141): the filter
IsTrailer(video) == video.type \in {"Trailer", "Teaser"} /\ video.site = "YouTube"

\* get_movie_videos, lines 115-131: the filtered list, [] for a failed request
\* or an empty list
GetVideos(reply) ==
    IF reply.status = "failed" THEN << >>
    ELSE SelectSeq(reply.results, IsTrailer)

\* find_media_for_post, lines 412-416
EmptyBundle == [found_titles |-> 0, images |-> 0, trailers |-> 0]

\* an order that looks at the TV category first
FirstSearchTvFirst(cats) ==
    IF TvCategoryId \in cats THEN "tv" ELSE "movie"

\* find_media_for_post, lines 442-458: the type of the first search
FirstSearch(cats) ==
    IF MovieCategoryId \in cats THEN "movie"
    ELSE IF TvCategoryId \in cats THEN "tv"
    ELSE "movie"

\* find_media_for_post, lines 445, 451, 457: whether the other type is
\* searched after a first search without a match
FallbackAllowed(cats) ==
    IF MovieCategoryId \in cats THEN TvCategoryId \notin cats ELSE TRUE

\* a second search whatever the first one found
NeedsFallbackAlways(result, cats) == FallbackAllowed(cats)

\* find_media_for_post, lines 445, 451, 457: "if not movie", "if not tv_show"
NeedsFallback(result, cats) == ~Truthy(result) /\ FallbackAllowed(cats)

OtherType(type) == IF type = "movie" THEN "tv" ELSE "movie"

\* the candidates the loop of line 437 goes through
Candidates == Take(potential_titles, CandidateCap)

\* the tokens of the posts handed to find_media_for_post
MediaTitleTokens == {AsListed("Marvel"), AsListed("nova")}
MediaContentTokens ==
    {AsListed("Walking Dead"), AsListed("Stranger Things"), AsListed("Euphoria")}

\* find_media_for_post, lines 412-437: the bundle, the categories, the titles
fm_begin ==
    /\ mpc = "idle"
    /\ \E title \in Texts(MediaTitleTokens, 1),
          content \in Texts(MediaContentTokens, MaxContentTokens),
          cats \in SUBSET {MovieCategoryId, TvCategoryId} :
         LET main == ExtractMainTitleFromPost(title)
             titles == ExtractPotentialTitles(content)
         IN  /\ categories' = cats
             /\ main_title' = main
             /\ content_titles' = titles
             /\ potential_titles' = PotentialTitles(main, titles)
             /\ mpc' = IF PotentialTitles(main, titles) = << >> THEN "return" ELSE "search"
             /\ mi' = IF PotentialTitles(main, titles) = << >> THEN 0 ELSE 1
    /\ media_data' = EmptyBundle
    /\ appended' = {}
    /\ movie' = NoMatch
    /\ tv_show' = NoMatch
    /\ searched' = << >>
    /\ UNCHANGED <<tpc, post_title, post_content, notTmdb>>

\* find_media_for_post, lines 439-458: the first search for the candidate
fm_search_first ==
    /\ mpc = "search"
    /\ \E reply \in SearchReplies :
         LET result == SearchFirstResult(reply) IN
         /\ movie' = IF FirstSearch(categories) = "movie" THEN result ELSE NoMatch
         /\ tv_show' = IF FirstSearch(categories) = "tv" THEN result ELSE NoMatch
         /\ mpc' = IF NeedsFallback(result, categories) THEN "fallback" ELSE "record"
    /\ searched' = <<FirstSearch(categories)>>
    /\ UNCHANGED <<categories, mi, media_data, appended, titleVars, notTmdb>>

\* find_media_for_post, lines 447, 453, 458: the search of the other type
fm_search_fallback ==
    /\ mpc = "fallback"
    /\ \E reply \in SearchReplies :
         LET result == SearchFirstResult(reply) IN
         /\ movie' = IF searched[1] = "tv" THEN result ELSE movie
         /\ tv_show' = IF searched[1] = "movie" THEN result ELSE tv_show
    /\ searched' = Append(searched, OtherType(searched[1]))
    /\ mpc' = "record"
    /\ UNCHANGED <<categories, mi, media_data, appended, titleVars, notTmdb>>

\* the match find_media_for_post records: the movie when there is one (line
\* 460, then continue), else the TV show (line 497)
Recorded == IF Truthy(movie) THEN movie ELSE tv_show

\* the loop of line 437 after the candidate at position mi
AfterCandidate == IF mi < Len(Candidates) THEN "search" ELSE "return"

\* the images a match adds: line 468, "if movie.get('poster_path')", and
\* line 477, "if movie.get('backdrop_path')"
ImagesOf(match) == Cardinality(match.fields \cap {"poster_path", "backdrop_path"})

\* find_media_for_post, lines 460-483 and 497-520: the match is recorded with
\* its images; movie['title'], movie['id'] raise KeyError when missing
fm_record ==
    /\ mpc = "record"
    /\ IF ~Truthy(Recorded)
       THEN /\ mpc' = AfterCandidate
            /\ mi' = IF mi < Len(Candidates) THEN mi + 1 ELSE mi
            /\ UNCHANGED <<media_data, movie, tv_show>>
       ELSE IF ~({"title", "id"} \subseteq Recorded.fields)
       THEN /\ mpc' = "raised"
            /\ UNCHANGED <<mi, media_data, movie, tv_show>>
       ELSE /\ media_data' = [media_data EXCEPT !.found_titles = @ + 1,
                                                !.images = @ + ImagesOf(Recorded)]
            /\ mpc' = "videos"
            /\ movie' = NoMatch
            /\ tv_show' = NoMatch
            /\ mi' = mi
    /\ searched' = << >>
    /\ UNCHANGED <<categories, appended, titleVars, notTmdb>>

\* find_media_for_post, lines 486-495 and 523-530: the videos of the match,
\* the first TrailerCap of them appended to the trailers
fm_videos ==
    /\ mpc = "videos"
    /\ \E reply \in VideoReplies(MaxVideos) :
         LET videos == Take(GetVideos(reply), TrailerCap) IN
         /\ media_data' = [media_data EXCEPT !.trailers = @ + Len(videos)]
         /\ appended' = appended \cup {videos[i] : i \in 1..Len(videos)}
    /\ mpc' = AfterCandidate
    /\ mi' = IF mi < Len(Candidates) THEN mi + 1 ELSE mi
    /\ UNCHANGED <<categories, movie, tv_show, searched, titleVars, notTmdb>>

\* find_media_for_post has not been called
MediaIdle ==
    /\ mpc = "idle"
    /\ categories = {}
    /\ mi = 0
    /\ movie = NoMatch
    /\ tv_show = NoMatch
    /\ searched = << >>
    /\ media_data = EmptyBundle
    /\ appended = {}

(***************************************************************************)
(* gemini_client.py: one ledger file used by several clients (the          *)
(* orchestrator's GeminiClient and the dashboard's, dashboard.py line 34). *)
(* _increment_quota_usage reads the file, then writes it; the steps of     *)
(* different clients interleave.                                           *)
(***************************************************************************)
NumClients == 2
Clients == 1..NumClients

\* a client that is not inside _increment_quota_usage
IdleClient == [pc |-> "idle", id |-> 0, all_data |-> EmptyLedger]

\* the records the shared file holds for a key at the start: none, or the
\* count of an earlier date
SharedRecords ==
    { NoRecord, [present |-> TRUE, date |-> 0, requests |-> max_daily_requests] }

\* _increment_quota_usage calls begun, finished or not
UsesBegun ==
    SumUses(recordUses, KeyIds) + Cardinality({c \in Clients : clients[c].pc = "loaded"})

\* _increment_quota_usage, lines 84-85: the client loads the file; its key
\* is any of the configured keys
inc_load(c) ==
    /\ clients[c].pc = "idle"
    /\ UsesBegun < MaxUses
    /\ \E id \in KeyIds :
         clients' = [clients EXCEPT ![c] = [pc |-> "loaded", id |-> id,
                                            all_data |-> LoadQuotaData(TRUE)]]
    /\ UNCHANGED <<quotaVars, notShared>>

\* _increment_quota_usage, lines 87-97: the client bumps its key's record in
\* the dictionary it loaded and writes the dictionary to the file
inc_save(c) ==
    /\ clients[c].pc = "loaded"
    /\ quotaFile' = SaveQuotaData(IncrementedData(clients[c].all_data, clients[c].id), TRUE)
    /\ recordUses' = [recordUses EXCEPT ![clients[c].id] = @ + 1]
    /\ clients' = [clients EXCEPT ![c] = IdleClient]
    /\ UNCHANGED <<today, current_key_index, current_api_key, gpc, key_index,
                   attempt, gresult, lastCan, readFaults, writeFaults, usedEarlier,
                   startedEmpty, rejected, callVars, lastSwitch, test_status, notShared>>

\* no client is inside _increment_quota_usage
SharedIdle == clients = [c \in Clients |-> IdleClient]

(***************************************************************************)
(* Specifications                                                          *)
(***************************************************************************)
\* the orchestrator has not run and the dashboard serves no request
OptIdle ==
    /\ history = {}
    /\ attempts = 0
    /\ dbFaults = 0
    /\ processed_posts = {}
    /\ dry_run = FALSE
    /\ opc = "idle"
    /\ posts_to_process = << >>
    /\ idx = 0
    /\ otrace = << >>
    /\ dpc = "idle"
    /\ dpost = 0
    /\ dtrace = << >>
    /\ pending = NoResult
    /\ cause = "none"
    /\ reason = "none"

\* initialize has returned True
StartDone ==
    /\ spc = "run"
    /\ unreachable = FALSE

\* no process has started and there is no lock file
LockIdle ==
    /\ lockFile = NoFile
    /\ lpc = [p \in Procs |-> "start"]
    /\ locked = [p \in Procs |-> FALSE]
    /\ acquired = [p \in Procs |-> "none"]
    /\ nextRun = [p \in Procs |-> 0]
    /\ effects = [p \in Procs |-> {}]

InitLock ==
    /\ now = 0
    /\ LockIdle
    /\ StartDone
    /\ TitlesIdle
    /\ MediaIdle
    /\ SharedIdle
    /\ ParseIdle
    /\ QuotaIdle
    /\ OptIdle

NextLock ==
    \/ LockTick
    \/ \E p \in Procs :
         \/ acquire_exists(p)
         \/ acquire_age(p)
         \/ acquire_remove(p)
         \/ acquire_create(p)
         \/ main_not_acquired(p)
         \/ main_initialize(p)
         \/ main_run(p)
         \/ scheduler_run_pending(p)
         \/ main_interrupt(p)
         \/ release_check(p)
         \/ release_remove(p)

SpecLock == InitLock /\ [][NextLock]_vars

InitQuota ==
    /\ now = 0
    /\ LockIdle
    /\ StartDone
    /\ TitlesIdle
    /\ MediaIdle
    /\ SharedIdle
    /\ ParseIdle
    /\ ClientConstructed
    /\ today = 1
    /\ \E r \in StartRecords : quotaFile = [id \in KeyIds |-> r]
    /\ startedEmpty = [id \in KeyIds |-> ~quotaFile[id].present]
    /\ OptIdle

NextQuota ==
    \/ can_make_request
    \/ increment_quota_usage
    \/ DateChange
    \/ oc_begin
    \/ oc_next_key
    \/ oc_generate
    \/ oc_sleep
    \/ oc_return

SpecQuota == InitQuota /\ [][NextQuota]_vars

\* the key rotation: a client used for any sequence of optimize_content,
\* test_connection and _switch_to_backup_key calls within one day
InitRotate ==
    /\ now = 0
    /\ LockIdle
    /\ StartDone
    /\ TitlesIdle
    /\ MediaIdle
    /\ SharedIdle
    /\ ParseIdle
    /\ ClientConstructed
    /\ today = 1
    /\ quotaFile \in [KeyIds -> RotateRecords]
    /\ startedEmpty = [id \in KeyIds |-> ~quotaFile[id].present]
    /\ OptIdle

InvocationNext ==
    \/ oc_begin
    \/ oc_next_key
    \/ oc_generate
    \/ oc_sleep
    \/ oc_return

NextRotate ==
    \/ InvocationNext
    \/ switch_to_backup_key
    \/ test_connection

SpecRotate == InitRotate /\ [][NextRotate]_vars

\* every step of a running invocation is eventually taken
FairRotate == SpecRotate /\ WF_vars(InvocationNext)

\* the parser, on a reply of some lines or on a rendered triple
InitParse ==
    /\ now = 0
    /\ LockIdle
    /\ StartDone
    /\ TitlesIdle
    /\ MediaIdle
    /\ SharedIdle
    /\ QuotaIdle
    /\ OptIdle
    /\ ppc = "reply"
    /\ parsed_result = ParseNone
    /\ \/ /\ echo = NoTriple
          /\ response_text \in LineReplies(MaxLines)
       \/ /\ echo \in [title : Fields(MaxField), excerpt : Fields(MaxField),
                        content : Fields(MaxField)]
          /\ response_text = Render(echo)

NextParse == parse_response

SpecParse == InitParse /\ [][NextParse]_vars

\* SEOOptimizer.__init__ and the dashboard's start, on an empty outcome log
Init ==
    /\ now = 0
    /\ LockIdle
    /\ StartDone
    /\ TitlesIdle
    /\ MediaIdle
    /\ SharedIdle
    /\ ParseIdle
    /\ QuotaIdle
    /\ history = {}
    /\ attempts = 0
    /\ dbFaults = 0
    /\ processed_posts = {}
    /\ dry_run \in BOOLEAN
    /\ opc = "idle"
    /\ posts_to_process = << >>
    /\ idx = 0
    /\ otrace = << >>
    /\ dpc = "idle"
    /\ dpost = 0
    /\ dtrace = << >>
    /\ pending = NoResult
    /\ cause = "none"
    /\ reason = "none"

\* the steps of the orchestrator inside one attempt and back to the loop
OrchestratorStep ==
    \/ op_fetch_metadata
    \/ op_find_media
    \/ op_generate
    \/ op_update_post
    \/ op_log_outcome
    \/ op_except
    \/ cycle_sleep
    \/ cycle_next_post
    \/ cycle_complete
    \/ cycle_except

\* the steps of the dashboard's optimize-post request
EndpointStep ==
    \/ api_mark_processing
    \/ api_find_media
    \/ api_generate
    \/ api_update_post
    \/ api_log_outcome
    \/ api_except
    \/ api_reply

Next ==
    \/ run_optimization_cycle
    \/ op_mark_processing
    \/ op_fetch_metadata
    \/ op_find_media
    \/ op_generate
    \/ op_update_post
    \/ op_log_outcome
    \/ op_except
    \/ cycle_sleep
    \/ cycle_next_post
    \/ cycle_complete
    \/ cycle_except
    \/ process_restart
    \/ \E post_id \in Posts : api_get_post(post_id)
    \/ api_mark_processing
    \/ api_find_media
    \/ api_generate
    \/ api_update_post
    \/ api_log_outcome
    \/ api_except
    \/ api_reply
    \/ \E post_id \in Posts : api_mark_success(post_id)

Spec == Init /\ [][Next]_vars

\* the interpreter runs the statements of an attempt one after the other
FairSpec == Spec /\ WF_vars(OrchestratorStep) /\ WF_vars(EndpointStep)

InitPending ==
    /\ now = 0
    /\ LockIdle
    /\ StartDone
    /\ TitlesIdle
    /\ MediaIdle
    /\ SharedIdle
    /\ ParseIdle
    /\ QuotaIdle
    /\ OptIdle

NextPending ==
    \/ PendingTick
    \/ before_request_hook
    \/ api_pending_posts
    \/ \E post_id \in Listed, status \in {"processing", "success", "failed"} :
         log_optimization(post_id, status)

SpecPending == InitPending /\ [][NextPending]_vars

(***************************************************************************)
(* main.py: initialize, then the first cycle                               *)
(***************************************************************************)
\* initialize, lines 70-72: "if not self.wp_client.test_connection()", a
\* bool that is False when the request failed
init_test_wordpress ==
    /\ spc = "wp"
    /\ \E wp_ok \in BOOLEAN :
         /\ unreachable' = (unreachable \/ ~wp_ok)
         /\ spc' = IF wp_ok THEN "gemini" ELSE "exit"
    /\ UNCHANGED notStart

\* initialize, lines 75-77: "if not self.gemini_client.test_connection()",
\* the dictionary of GeminiClient.test_connection
init_test_gemini ==
    /\ spc = "gemini"
    /\ \E answered \in SUBSET (0..(NumKeys - 1)) :
         /\ unreachable' = (unreachable \/ answered = {})
         /\ spc' = IF DictTruthy(GeminiTestResult(answered)) THEN "tmdb" ELSE "exit"
    /\ UNCHANGED notStart

\* initialize, lines 80-85: "if not self.tmdb_client.test_connection()", a
\* bool; then return True
init_test_tmdb ==
    /\ spc = "tmdb"
    /\ \E tmdb_ok \in BOOLEAN :
         /\ unreachable' = (unreachable \/ ~tmdb_ok)
         /\ spc' = IF tmdb_ok THEN "run" ELSE "exit"
    /\ UNCHANGED notStart

\* main, lines 290-299: after initialize returned True the cycle runs
main_cycle_step ==
    /\ spc = "run"
    /\ \/ run_optimization_cycle
       \/ op_mark_processing
       \/ OrchestratorStep

InitStart ==
    /\ now = 0
    /\ LockIdle
    /\ TitlesIdle
    /\ MediaIdle
    /\ SharedIdle
    /\ ParseIdle
    /\ QuotaIdle
    /\ OptIdle
    /\ spc = "wp"
    /\ unreachable = FALSE

NextStart ==
    \/ init_test_wordpress
    \/ init_test_gemini
    \/ init_test_tmdb
    \/ main_cycle_step

SpecStart == InitStart /\ [][NextStart]_vars

InitShared ==
    /\ now = 0
    /\ LockIdle
    /\ StartDone
    /\ TitlesIdle
    /\ MediaIdle
    /\ SharedIdle
    /\ ParseIdle
    /\ ClientConstructed
    /\ today = 1
    /\ quotaFile \in [KeyIds -> SharedRecords]
    /\ startedEmpty = [id \in KeyIds |-> ~quotaFile[id].present]
    /\ OptIdle

NextShared == \E c \in Clients : inc_load(c) \/ inc_save(c)

SpecShared == InitShared /\ [][NextShared]_vars

InitTitles ==
    /\ now = 0
    /\ LockIdle
    /\ StartDone
    /\ ParseIdle
    /\ QuotaIdle
    /\ OptIdle
    /\ TitlesIdle
    /\ MediaIdle
    /\ SharedIdle

NextTitles == extract_titles

SpecTitles == InitTitles /\ [][NextTitles]_vars

NextMedia ==
    \/ fm_begin
    \/ fm_search_first
    \/ fm_search_fallback
    \/ fm_record
    \/ fm_videos

SpecMedia == InitTitles /\ [][NextMedia]_vars

(***************************************************************************)
(* Claims                                                                  *)
(***************************************************************************)
\* C1: at no time do two processes both hold the lock (both obtained True
\* from acquire and neither has released).
C1_MutualExclusion ==
    \A p, q \in Procs : (Holding(p) /\ Holding(q)) => p = q

\* C2: a process whose acquire returned False never initializes, runs no
\* cycle, writes no outcome row and makes no external call, and the release
\* at its exit leaves the lock file as it is.
C2_RefusedNoSideEffects ==
    /\ [](\A p \in Procs : acquired[p] = "false" => effects[p] = {})
    /\ [][\A p \in Procs :
            (acquired[p] = "false" /\ lpc[p] \in {"entered", "exit", "unlink"}
               /\ lpc'[p] # lpc[p])
            => (lockFile' = lockFile /\ effects'[p] = {})]_vars

\* a refused process has exited while the holder's lock file is in place
C2_Witness ==
    \E p, q \in Procs :
        /\ acquired[p] = "false" /\ lpc[p] = "done"
        /\ Holding(q) /\ lockFile.exists /\ lockFile.pid = q

\* the number of positions of an attempt's record that hold one of the events
CountEvents(trace, events) == Cardinality({i \in 1..Len(trace) : trace[i] \in events})

HasEvent(trace, event) == \E i \in 1..Len(trace) : trace[i] = event

LastEvent(trace) == IF trace = << >> THEN "none" ELSE trace[Len(trace)]

TerminalEvents == {"success", "failed"}

\* C3: a post that has a 'success' row in the outcome log is never put into
\* the batch that run_optimization_cycle submits to optimize_post, in any cycle
\* of any process run, whether or not the read of the outcome log during
\* candidate selection succeeds.
C3_SuccessNeverResubmitted ==
    [][(opc = "idle" /\ opc' = "optimize")
          => \A i \in 1..Len(posts_to_process') :
                 posts_to_process'[i] \notin SuccessIds(history)]_vars

\* the rows of the outcome log that say post p is being processed, by age
ProcessingAges(p) ==
    {now - r.date : r \in {x \in history : x.post_id = p /\ x.status = "processing"}}

HasSuccess(p) == \E r \in history : r.post_id = p /\ r.status = "success"

\* all 'processing' rows of p are older than one hour, and p has no 'success' row
StaleOnly(p) ==
    /\ ~HasSuccess(p)
    /\ ProcessingAges(p) # {}
    /\ \A a \in ProcessingAges(p) : a > ProcessingStaleSeconds

\* p has a 'processing' row younger than one hour
FreshProcessing(p) == \E a \in ProcessingAges(p) : a < ProcessingStaleSeconds

InResult(p) == \E i \in 1..Len(pending.result) : pending.result[i] = p

\* a selection was answered from a listing and a successful read of the log
Answered == pending.valid /\ pending.readOk /\ pending.listed # << >>

\* the listed posts before position i that the selection takes as candidates
CandidatesBefore(i) ==
    Cardinality({j \in 1..(i - 1) :
        /\ ~HasSuccess(pending.listed[j])
        /\ \A a \in ProcessingAges(pending.listed[j]) : a >= ProcessingStaleSeconds})

\* rows leave the outcome log only as 'processing' rows older than one hour
OnlyStaleProcessingDeleted ==
    \A r \in history \ history' :
        r.status = "processing" /\ now - r.date > ProcessingStaleSeconds

\* C4 as stated: every listed post whose only 'processing' rows are older than
\* one hour (and that has no 'success' row) is returned by get_pending_posts,
\* a post with a 'processing' row younger than one hour is not, and the purge
\* removes stale 'processing' rows only.
C4_StalenessRule ==
    /\ [](Answered =>
            \A i \in 1..Len(pending.listed) :
                LET p == pending.listed[i] IN
                /\ StaleOnly(p) => InResult(p)
                /\ FreshProcessing(p) => ~InResult(p))
    /\ [][OnlyStaleProcessingDeleted]_vars

\* C4, amended: such a post is returned exactly when fewer than five
\* candidates precede it in the listing (the answer is cut to five posts); a
\* post with a 'processing' row younger than one hour is never returned; the
\* purge removes 'processing' rows older than one hour and no other row.
C4_StalenessRuleWithinBatch ==
    /\ [](Answered =>
            \A i \in 1..Len(pending.listed) :
                LET p == pending.listed[i] IN
                /\ StaleOnly(p) => (InResult(p) <=> CandidatesBefore(i) < PendingBatch)
                /\ FreshProcessing(p) => ~InResult(p))
    /\ [][OnlyStaleProcessingDeleted]_vars

\* a selection that returned a post with only stale 'processing' rows and
\* held back a post with a fresh one
C4_Witness ==
    /\ Answered
    /\ \E p \in Listed : StaleOnly(p) /\ InResult(p)
    /\ \E p \in Listed : FreshProcessing(p) /\ ~InResult(p)

\* no external call of the attempt precedes its 'processing' row
ProcessingFirst(trace) ==
    \A i \in 1..Len(trace) :
        trace[i] = "external" => \E j \in 1..(i - 1) : trace[j] = "processing"

\* C5: in every optimization attempt, by the orchestrator or by the
\* dashboard's optimize-post endpoint, the 'processing' row is written before
\* any external call of the attempt.
C5_ProcessingBeforeExternal == ProcessingFirst(otrace) /\ ProcessingFirst(dtrace)

\* every terminal row of the attempt follows the attempt's 'processing' row
TerminalAfterProcessing(trace) ==
    \A i \in 1..Len(trace) :
        trace[i] \in TerminalEvents => \E j \in 1..(i - 1) : trace[j] = "processing"

\* the attempt ended with one terminal row, its last event, after 'processing'
OneTerminalRow(trace, post_id) ==
    /\ HasEvent(trace, "processing")
    /\ CountEvents(trace, TerminalEvents) = 1
    /\ LastEvent(trace) \in TerminalEvents
    /\ LogRow(post_id, LastEvent(trace)) \in history

C6_Rows ==
    /\ CountEvents(otrace, TerminalEvents) <= 1
    /\ CountEvents(dtrace, TerminalEvents) <= 1
    /\ TerminalAfterProcessing(otrace)
    /\ ~HasEvent(dtrace, "log_error") => TerminalAfterProcessing(dtrace)
    /\ opc = "returned" => OneTerminalRow(otrace, CurrentPost)
    /\ opc = "raised" => LastEvent(otrace) = "log_error"
    /\ (dpc = "replied" /\ HasEvent(dtrace, "processing") /\ ~HasEvent(dtrace, "log_error"))
          => OneTerminalRow(dtrace, dpost)

UpdateEvents == {"update_ok", "update_fail"}

\* one attempt's use of update_post
UpdateOnce(trace, ended) ==
    /\ CountEvents(trace, UpdateEvents) <= 1
    /\ \A i \in 1..Len(trace) :
         trace[i] \in UpdateEvents => \E j \in 1..(i - 1) : trace[j] = "content"
    /\ (ended /\ ~HasEvent(trace, "log_error")) =>
         /\ HasEvent(trace, "update_fail") => LastEvent(trace) = "failed"
         /\ HasEvent(trace, "update_ok") => LastEvent(trace) = "success"

NoLedgerFault == readFaults = 0 /\ writeFaults = 0

\* a step that runs _can_make_request: on its own, or at the head of
\* optimize_content's key loop
CanStep ==
    /\ today' = today
    /\ \/ gpc = "key" /\ key_index < NumKeys
       \/ gpc = "idle" /\ gpc' = "idle" /\ recordUses' = recordUses

\* C8: _can_make_request returns true iff the count the ledger holds for the
\* active key's identifier under today's date is below the cap of 45 (a count
\* under another date counts as 0), whenever the ledger was read.
C8_CanUseIffBelowCap ==
    [][(CanStep /\ readFaults' = readFaults)
        => /\ lastCan' = (TodayCount(quotaFile, KeyIdentifier(current_api_key'), today)
                            < max_daily_requests)
           /\ (gpc = "key") => ((gpc' = "attempt") = lastCan')]_vars

\* the cap was reached for the active key today and the check refused it, while
\* a count held under an earlier date had been let through
C8_Witness ==
    /\ ~lastCan
    /\ gpc = "key"
    /\ key_index = 2
    /\ TodayCount(quotaFile, KeyIdentifier(current_api_key), today) = max_daily_requests
    /\ NoLedgerFault

\* C9: from no record and with a working ledger file, after N calls of
\* _increment_quota_usage for a key on one date the stored count is N under
\* that date; one call, a date change and one more call leave a count of 1
\* under the new date.
C9_RecordUseCounts ==
    \A id \in KeyIds :
        (startedEmpty[id] /\ NoLedgerFault /\ recordUses[id] > 0)
        => quotaFile[id] = [present |-> TRUE, date |-> today, requests |-> recordUses[id]]

\* one call, a date change, one more call
C9_Witness ==
    \E id \in KeyIds :
        /\ startedEmpty[id] /\ NoLedgerFault
        /\ today > 1 /\ usedEarlier >= 1
        /\ recordUses[id] = 1
        /\ quotaFile[id].requests = 1

\* a step of optimize_content
InvocationStep == gpc \in {"key", "attempt", "sleep"} /\ today' = today

\* C10: within optimize_content a count rises only in the step that returns
\* a result, only under the identifier of the key that made the call and by
\* one (exactly one with a working ledger file, every other record staying);
\* a step that returns no result raises no count.
C10_RecordOnlyOnSuccess ==
    [][InvocationStep =>
        LET returns == gpc = "attempt" /\ gresult' = "ok"
            made == KeyIdentifier(current_api_key)
            before(id) == TodayCount(quotaFile, id, today)
            after(id) == TodayCount(quotaFile', id, today)
        IN  /\ \A id \in KeyIds :
                  after(id) > before(id) => (returns /\ id = made /\ after(id) = before(id) + 1)
            /\ (returns /\ readFaults' = readFaults /\ writeFaults' = writeFaults)
                 => /\ after(made) = before(made) + 1
                    /\ \A id \in KeyIds \ {made} : quotaFile'[id] = quotaFile[id]
            /\ (gresult' = "fail") => quotaFile' = quotaFile]_vars

\* key #1 was rejected for quota, key #2 returned a valid reply: the result is
\* success and only key #2's count has risen
C10_Witness ==
    /\ gpc = "done" /\ gresult = "ok"
    /\ rejected = {0}
    /\ current_key_index = 1
    /\ NoLedgerFault
    /\ startedEmpty[KeyIdentifier(api_keys[1])]
    /\ startedEmpty[KeyIdentifier(api_keys[2])]
    /\ TodayCount(quotaFile, KeyIdentifier(api_keys[1]), today) = 0
    /\ TodayCount(quotaFile, KeyIdentifier(api_keys[2]), today) = 1

\* positions of the key list
KeyIndexes == 0..(NumKeys - 1)

\* generation calls made so far in the invocation
RECURSIVE SumCalls(_, _)
SumCalls(f, is) ==
    IF is = {} THEN 0
    ELSE LET i == CHOOSE x \in is : TRUE
         IN  f[i] + SumCalls(f, is \ {i})

TotalCalls == SumCalls(calls, KeyIndexes)

\* the step that makes a generation call (with the active key)
CallStep == gpc = "attempt" /\ gpc' # "attempt"

\* the step at the head of the outer loop that checks a key's local quota
CheckStep == gpc = "key" /\ key_index < NumKeys /\ today' = today

C12_SwitchToBackupKey ==
    [][lastSwitch' # "none" =>
         IF current_key_index < NumKeys - 1
           THEN /\ lastSwitch' = "true"
                /\ current_key_index' = current_key_index + 1
                /\ current_api_key' = api_keys[current_key_index + 2]
           ELSE /\ lastSwitch' = "false"
                /\ current_key_index' = current_key_index
                /\ current_api_key' = current_api_key]_vars

\* a switch at the last index of a list the client has walked by switching
C12_Witness ==
    /\ lastSwitch = "false"
    /\ current_key_index = NumKeys - 1
    /\ current_api_key = api_keys[NumKeys]
    /\ NumKeys > 1

\* C13: the active index is 0 after construction, stays within the key list,
\* never decreases in any step of optimize_content, test_connection or
\* _switch_to_backup_key, and an invocation starts its loop at the active
\* index, so that every call is made at or after it.
C13_CursorMonotone ==
    /\ current_key_index = 0
    /\ [](current_key_index \in KeyIndexes)
    /\ [][/\ current_key_index' >= current_key_index
          /\ (gpc = "idle" /\ gpc' = "key") => key_index' = current_key_index
          /\ CallStep => \A i \in KeyIndexes :
                            i < current_key_index => calls'[i] = calls[i]]_vars

\* an invocation that began at a later index is making its first call: the
\* first key was neither checked nor called in it
C13_Witness ==
    /\ gpc = "attempt"
    /\ current_key_index > 0
    /\ TotalCalls = 0
    /\ skipped = {}

\* the invocation is done with key j: rejected for quota, or all turns taken
MovedOn(j) == j \in rejected \/ calls[j] = max_retries_per_key

\* C14: an invocation ends whatever the service answers; it makes at most
\* max_retries_per_key calls with one key and at most that many times the
\* number of keys in all; calls follow the order of the list: when a call is
\* made with a key, every earlier key that was called is done (all its turns
\* taken, or rejected for quota), everything between it and the key called
\* was called or refused by the quota check, and no later key has been called.
C14_BoundedRetry ==
    /\ [](/\ \A i \in KeyIndexes : calls[i] <= max_retries_per_key
          /\ TotalCalls <= max_retries_per_key * NumKeys)
    /\ [][CallStep =>
            \A j \in KeyIndexes :
               /\ (j < current_key_index /\ calls[j] > 0) =>
                     /\ MovedOn(j)
                     /\ \A m \in (j + 1)..(current_key_index - 1) :
                           calls[m] > 0 \/ m \in skipped
               /\ j > current_key_index => calls[j] = 0]_vars
    /\ (gpc \in {"key", "attempt", "sleep"}) ~> (gpc = "done")

\* the first key took all its turns without a quota rejection and the next
\* call has been made with the second key
C14_Witness ==
    /\ NumKeys > 1
    /\ calls[0] = max_retries_per_key
    /\ 0 \notin rejected
    /\ calls[1] = 1

\* C15: after a quota rejection no further call is made with the rejected
\* key, and no wait lies between the rejection and the next call.
C15_RotatesImmediately ==
    /\ [](retried = {})
    /\ [][CallStep => waited # "quota"]_vars

\* C16: when the last key of the list is rejected for quota, the invocation
\* does not fail before it has called that key again.
C16_LastKeyRetried ==
    (gpc = "done" /\ gresult = "fail" /\ (NumKeys - 1) \in rejected)
        => (NumKeys - 1) \in retried

\* the step had a failing read or write of the ledger file
LedgerFaultStep == readFaults' > readFaults \/ writeFaults' > writeFaults

\* C17: a quota check whose read or write of the ledger fails says yes and
\* the invocation goes on to call with that key; a valid reply is returned
\* as the result whether or not the booking's read or write fails.
C17_FailOpen ==
    [][/\ (CheckStep /\ LedgerFaultStep) =>
             /\ lastCan'
             /\ gpc' = "attempt"
             /\ current_key_index' = key_index
       /\ (CallStep /\ lastReply' = "valid") =>
             /\ gresult' = "ok"
             /\ gpc' = "done"]_vars

\* the ledger held the cap for the first key, its read failed, and the call
\* made with that key returned a result
C17_Witness ==
    /\ gpc = "done" /\ gresult = "ok"
    /\ readFaults > 0
    /\ ~startedEmpty[KeyIdentifier(api_keys[1])]
    /\ calls[0] = 1
    /\ TotalCalls = 1

\* the first position of a header in a text (0: the header is absent)
HeaderAt(text, header) ==
    LET at == {i \in 1..Len(text) : text[i] = header}
    IN  IF at = {} THEN 0 ELSE Min(at)

\* a section runs from its header to the next header or to the end of the text
SectionOf(text, header) ==
    LET i == HeaderAt(text, header)
        e == Min({x \in (i + 1)..(Len(text) + 1) :
                    x = Len(text) + 1 \/ text[x] \in Headers})
    IN  SubSeq(text, i + 1, e - 1)

\* a section of the reply is absent, or empty after trimming
AbsentOrEmpty(text) ==
    \E header \in Headers :
        \/ HeaderAt(text, header) = 0
        \/ Strip(SectionOf(text, header)) = << >>

\* C18: whenever one of the three sections is absent from the reply or is
\* empty after trimming, the parser returns nothing.
C18_NothingOnEmptySection ==
    (ppc = "parsed" /\ AbsentOrEmpty(response_text)) => parsed_result = ParseNone

\* a field as the parser can give it back: trimmed and not empty
Trimmed(f) == f # << >> /\ Strip(f) = f

\* a field that holds no text beginning with "## "
NoHeading(f) == \A i \in 1..Len(f) : f[i] \notin Headers

\* C19 as stated: parsing the rendering of any triple of non-empty strings
\* gives the triple back.
C19_RoundTrip ==
    (ppc = "parsed" /\ echo # NoTriple) => parsed_result = echo

\* C19, amended: parsing the rendering of a triple gives the triple back when
\* its three strings are trimmed and not empty and neither the title nor the
\* excerpt holds a "## " heading.
C19_RoundTripTrimmed ==
    (/\ ppc = "parsed"
     /\ echo # NoTriple
     /\ Trimmed(echo.title) /\ Trimmed(echo.excerpt) /\ Trimmed(echo.content)
     /\ NoHeading(echo.title) /\ NoHeading(echo.excerpt))
        => parsed_result = echo

\* a triple with a line break in its title and a heading in its content came
\* back from the parse of its rendering
C19_Witness ==
    /\ ppc = "parsed"
    /\ echo # NoTriple
    /\ Len(echo.title) > 1 /\ Trimmed(echo.title) /\ NoHeading(echo.title)
    /\ Trimmed(echo.excerpt) /\ NoHeading(echo.excerpt)
    /\ Trimmed(echo.content) /\ ~NoHeading(echo.content)
    /\ parsed_result = echo

\* C20: a reply the parser rejects is parsed once, books no use and returns
\* nothing; it takes one turn of the key's retry loop: after the sleep comes
\* the next turn with a new call, or the next key when that was the last turn.
C20_UnparseableConsumesAttempt ==
    [][/\ (CallStep /\ lastReply' = "unparseable") =>
             /\ parses' = 1
             /\ quotaFile' = quotaFile
             /\ recordUses' = recordUses
             /\ gresult' = "none"
             /\ gpc' = "sleep"
             /\ attempt' = attempt
       /\ (gpc = "sleep" /\ lastReply = "unparseable") =>
             IF attempt + 1 < max_retries_per_key
               THEN /\ gpc' = "attempt"
                    /\ attempt' = attempt + 1
                    /\ key_index' = key_index
               ELSE /\ gpc' = "key"
                    /\ key_index' = key_index + 1]_vars

\* the second call with a key got a reply the parser rejected
C20_Witness ==
    /\ gpc = "sleep"
    /\ lastReply = "unparseable"
    /\ parses = 1
    /\ attempt = 1
    /\ calls[current_key_index] = 2
    /\ \A id \in KeyIds : recordUses[id] = 0


\* the branch an attempt takes when its generation ends for the given class
FailureBranch(class) ==
    IF class = "update" THEN "updated_fail"
    ELSE CASE OptimizeContentReturn(class) = "none" -> "no_content"
           [] OptimizeContentReturn(class) = "raise" -> "except"
           [] OTHER -> "updated_ok"

\* the reason the orchestrator logs for a failure of the given class
FailureReason(class) == OrchReason(FailureBranch(class))

\* C21: the 'failed' row of an attempt whose generation ended because the
\* replies lacked a section carries a reason that differs from the reason
\* logged for quota exhaustion and from the one logged for a failed backend
\* write
C21_ReasonTellsClass ==
    [][(cause = "parse" /\ reason = "none" /\ reason' # "none")
          => /\ reason' # FailureReason("quota")
             /\ reason' # FailureReason("update")]_vars

\* C23: a cycle that has started ends only after optimize_post was called
\* on every post selected for it
C23_BatchContinues ==
    [][(opc # "idle" /\ opc' = "idle" /\ posts_to_process' = posts_to_process)
          => idx = Len(posts_to_process)]_vars

\* C24: the batch of a cycle has at most BatchLimit posts; the loop moves to
\* the next post only out of the delay; after an attempt has returned, with
\* whatever outcome, the delay is the loop's next step exactly when a post
\* remains
C24_BatchCadence ==
    /\ [](Len(posts_to_process) <= BatchLimit)
    /\ [][(idx >= 1 /\ idx' = idx + 1) => opc = "delay"]_vars
    /\ [][(opc = "returned" /\ opc' = "delay") => idx < Len(posts_to_process)]_vars
    /\ [][(opc = "returned" /\ opc' # "returned" /\ idx < Len(posts_to_process)
           /\ posts_to_process' = posts_to_process)
            => opc' = "delay"]_vars
    /\ [][(opc = "returned" /\ opc' = "idle" /\ posts_to_process' = posts_to_process)
            => idx = Len(posts_to_process)]_vars

\* the delay after a first post that failed, in a batch of BatchLimit posts
C24_Witness ==
    /\ opc = "delay"
    /\ idx = 1
    /\ Len(posts_to_process) = BatchLimit
    /\ LogRow(CurrentPost, "failed") \in history
    /\ CurrentPost \notin SuccessIds(history)

\* C25: when initialization found the content backend, the media catalog or
\* every credential of the generative service unreachable, no optimization
\* cycle runs and no post is marked 'processing'
C25_UnreachableNoCycle ==
    unreachable => (opc = "idle" /\ history = {})


\* the result of the search of the given type for the current candidate
ResultOf(type) == IF type = "movie" THEN movie ELSE tv_show

\* the searches for the current candidate have been issued, at least the first
Searching == mpc \in {"fallback", "record"}

\* a second search is issued only after a first one without a match, and is
\* of the other type
FallbackOnly ==
    Len(searched) = 2
        => /\ ~Truthy(ResultOf(searched[1]))
           /\ searched[2] = OtherType(searched[1])

\* C22: find_media_for_post returns a bundle, empty or partial, whatever the
\* catalog answers: it never ends with an exception
C22_MediaNeverAborts == mpc # "raised"

C27_OneMatchPerCandidate ==
    /\ Len(searched) <= 2
    /\ (Len(searched) = 2) => searched[1] # searched[2]
    /\ FallbackOnly
    /\ (mpc \in {"search", "fallback", "record"}) => media_data.found_titles <= mi - 1
    /\ (mpc \in {"videos", "return"}) => media_data.found_titles <= mi

\* a first search that matched, where the other type could have been tried:
\* no second search was issued
C27_Witness ==
    /\ mpc = "record"
    /\ FallbackAllowed(categories)
    /\ Len(searched) = 1
    /\ Truthy(ResultOf(searched[1]))
    /\ mi = 2
    /\ media_data.found_titles = 1

\* the images a match with the given keys may add: one poster when it has a
\* poster path, one backdrop when it has a backdrop path
PosterAndBackdrop(fields) ==
    (IF "poster_path" \in fields THEN 1 ELSE 0)
        + (IF "backdrop_path" \in fields THEN 1 ELSE 0)

\* C28: at most 2 content titles and at most CandidateCap candidates, so at
\* most 3 matched titles in the bundle; a match adds one image per path it
\* has (poster, backdrop) and at most 2 trailers, each a Trailer or Teaser
\* hosted on YouTube
C28_BundleBounds ==
    /\ [](/\ Len(content_titles) <= 2
          /\ Len(Candidates) <= 3
          /\ mi <= 3
          /\ media_data.found_titles <= 3
          /\ media_data.images <= 2 * media_data.found_titles
          /\ media_data.trailers <= 2 * media_data.found_titles
          /\ \A video \in appended :
                 video.type \in {"Trailer", "Teaser"} /\ video.site = "YouTube")
    /\ [][mpc = "record"
            => /\ media_data'.found_titles <= media_data.found_titles + 1
               /\ media_data'.images - media_data.images
                    = (IF media_data'.found_titles = media_data.found_titles THEN 0
                       ELSE PosterAndBackdrop(Recorded.fields))]_vars
    /\ [][mpc = "videos" => media_data'.trailers <= media_data.trailers + 2]_vars

\* a bundle of three matches, each with both images and two trailers
C28_Witness ==
    /\ mpc = "return"
    /\ Len(potential_titles) = 3
    /\ media_data = [found_titles |-> 3, images |-> 6, trailers |-> 6]

\* two strings that differ at most in letter case
SameFolded(a, b) == a.text = b.text

\* the first occurrence of every string of a list, letter case ignored
RECURSIVE DedupFolded(_)
DedupFolded(s) ==
    IF s = << >> THEN << >>
    ELSE LET rest == DedupFolded(SubSeq(s, 1, Len(s) - 1))
         IN  IF \E i \in 1..Len(rest) : SameFolded(rest[i], s[Len(s)])
             THEN rest ELSE Append(rest, s[Len(s)])

\* C29: the candidates are the main title (when it is not empty) followed
\* by the content titles in their order, of which only the first of those
\* that differ at most in letter case is kept
C29_CandidateList ==
    tpc = "extracted"
        => potential_titles =
               DedupFolded(IF main_title # EmptyTitle
                           THEN <<main_title>> \o content_titles
                           ELSE content_titles)

\* the token is a phrase of the franchise table, in some letter case
IsFranchise(token) ==
    \E k \in 1..Len(FranchisePatterns) : Matches(FranchisePatterns[k], token)

\* the canonical name of the franchise a phrase belongs to
CanonicalName(token) == TitleMap(AsListed(token.text))

\* C30: for a post title that holds a phrase of the franchise table, in any
\* letter case, the main title is the canonical name of a franchise of the
\* title
C30_CanonicalName ==
    (tpc = "extracted" /\ \E i \in 1..Len(post_title) : IsFranchise(post_title[i]))
        => \E i \in 1..Len(post_title) :
               IsFranchise(post_title[i]) /\ main_title = CanonicalName(post_title[i])

\* process p ends its release in this step
ReleaseEnds(p) == lpc[p] \in {"exit", "unlink"} /\ lpc'[p] = "done"

\* C37: a release removes the lock file only when the file is the one the
\* releasing process wrote: the lock of a process that took a stale lock
\* over is never deleted by the former holder
C37_ReleaseOwnLock ==
    [][\A p \in Procs :
         (ReleaseEnds(p) /\ lockFile.exists /\ ~lockFile'.exists)
             => lockFile.pid = p]_vars

WithinCap(file, id) == file[id].present => file[id].requests <= max_daily_requests

\* C35: with one client and a ledger that is read and written without
\* failure, no step of an optimize_content invocation takes the count stored
\* for a credential above the daily cap
C35_CountWithinCap ==
    [][(gpc # "idle" /\ readFaults' = 0 /\ writeFaults' = 0)
         => \A id \in KeyIds : WithinCap(quotaFile, id) => WithinCap(quotaFile', id)]_vars

\* a use took the count of the first credential to the cap, and the
\* invocation that followed found the credential refused
C35_Witness ==
    /\ NoLedgerFault
    /\ gpc = "key"
    /\ 0 \in skipped
    /\ recordUses[KeyIdentifier(api_keys[1])] = 1
    /\ quotaFile[KeyIdentifier(api_keys[1])]
         = [present |-> TRUE, date |-> today, requests |-> max_daily_requests]

\* C36: a step that reads or writes the ledger for the active credential
\* leaves the record of every other credential as it was, also when the
\* read of the ledger failed
C36_OtherRecordsKept ==
    [][\A id \in KeyIds :
         id # KeyIdentifier(current_api_key') => quotaFile'[id] = quotaFile[id]]_vars

\* the latest attempt on p ended 'failed': p has a 'processing' row, a
\* 'failed' row written after every 'processing' row, and no 'success' row
EndedFailed(p) ==
    /\ ~HasSuccess(p)
    /\ ProcessingAges(p) # {}
    /\ \E r \in history :
         /\ r.post_id = p
         /\ r.status = "failed"
         /\ \A a \in ProcessingAges(p) : now - r.date < a

\* C33: a listed post whose latest attempt ended 'failed' is returned by
\* get_pending_posts (when fewer than five candidates precede it), whatever
\* the age of the attempt's 'processing' row
C33_FailedSelectable ==
    Answered =>
        \A i \in 1..Len(pending.listed) :
            (EndedFailed(pending.listed[i]) /\ CandidatesBefore(i) < PendingBatch)
                => InResult(pending.listed[i])

\* the endpoint's attempt holds a 'processing' row
EndpointAttempt ==
    /\ dpc \in {"media", "generate", "update", "updated_ok", "updated_fail", "except"}
    /\ HasEvent(dtrace, "processing")

\* the orchestrator's attempt holds a 'processing' row
OrchestratorAttempt == opc \in AttemptPcs /\ HasEvent(otrace, "processing")

\* C34: the orchestrator and the dashboard's endpoint are never both in an
\* attempt on the same post, each with its 'processing' row written
C34_NoDoubleAttempt ==
    ~(OrchestratorAttempt /\ EndpointAttempt /\ dpost = CurrentPost)

\* C39: an attempt of the orchestrator that logged 'success' had update_post
\* return true before, in dry-run mode too
C39_SuccessAfterUpdate ==
    HasEvent(otrace, "success") => HasEvent(otrace, "update_ok")

\* C31: every title the extractors return passes the validator: the main
\* title when it is not empty, and every content title
C31_ReturnedTitlesValid ==
    tpc = "extracted"
        => /\ main_title # EmptyTitle => IsValidTitle(main_title)
           /\ \A i \in 1..Len(content_titles) : IsValidTitle(content_titles[i])

\* every _increment_quota_usage finished so far was for the credential id
OnlyUsesOf(id) == \A other \in KeyIds \ {id} : recordUses[other] = 0

\* C32: when no client is inside _increment_quota_usage and every call made
\* was for one credential, on one date, the count stored for that credential
\* is the number of calls made, whatever the interleaving
C32_NoLostUpdate ==
    SharedIdle =>
        \A id \in KeyIds :
            OnlyUsesOf(id) => TodayCount(quotaFile, id, today) = recordUses[id]

====
